---- MODULE Spec2Model ----
(***************************************************************************)
(* A model of the one-way push synchronisation engine: the server's        *)
(* file_sync handler with backup-on-write (server.py), the metadata store  *)
(* (database.py), the time-windowed restorer (restorer.py) and the         *)
(* client's diff engine (client.py).                                       *)
(*                                                                         *)
(* Time is counted in ticks, TicksPerSecond ticks to the second, so that   *)
(* the fractional time.time() and its integer part int(time.time()) are    *)
(* both represented.  A file content is the pair (length, variant): the    *)
(* variant tells apart byte strings of the same length.                    *)
(***************************************************************************)
EXTENDS Integers, Sequences, FiniteSets, TLC

\* ------------------------------------------------------------------ bounds
TicksPerSecond == 2
MaxTime == 4
MaxFiles == 2
MaxRestores == 1
MaxLog == 3
MaxRequests == 3
MaxBody == 2

\* ------------------------------------------------------- program constants
DEFAULT_TIME_THRESHOLD == 60
DEFAULT_SIZE_THRESHOLD == 10
DEFAULT_BUFFER_SIZE == 4096

\* ------------------------------------------------------------- value sets
Workers == {"w1"}

\* two session workers that receive a file for the same destination path
Sessions == {"s1", "s2"}

\* a session before the loop body: no backup name, offset 0, no stat, nothing read
NoLocals == [backup_path |-> -1, offset |-> 0, size |-> 0, data |-> <<>>]

\* relative paths <<directory, file name>>; two of them share a file name
Paths == {<<"d1", "a.txt">>, <<"d2", "a.txt">>}

PathName(p) == p[2]
PathDir(p) == p[1]
Dirs == {PathDir(p) : p \in Paths}

\* no file at a path; SQL NULL; no path or backup name in hand
Absent == [absent |-> TRUE]
NULL == [null |-> TRUE]
NoPath == <<"", "">>
NoName == <<"", 0>>

\* the names a backup can get within the modelled time
BackupNames == {<<p[2], s>> : p \in Paths, s \in 0..(MaxTime + 1)}

\* contents on the server side: the empty file and two one-byte-class files
Empty == [len |-> 0, v |-> 0]
ContentA == [len |-> 1, v |-> 0]
ContentB == [len |-> 1, v |-> 1]
SyncContents == {ContentA, ContentB}
ClientMtimes == {5}

\* MD5 digest of a content: distinct contents have distinct digests
calculate_file_hash(c) == [md5 |-> <<c.len, c.v>>]

\* a file of the tree: its bytes and its modification time (in ticks)
MkFile(c, m) == [content |-> c, mtime |-> m]

\* one entry of a transfer set
FileInfo(p, c, m) ==
    [path |-> p, size |-> c.len, modified_time |-> m, hash |-> calculate_file_hash(c)]

FileInfos == {FileInfo(p, c, m) : p \in Paths, c \in SyncContents, m \in ClientMtimes}

RECURSIVE SeqsUpTo(_, _)
SeqsUpTo(S, n) ==
    IF n = 0 THEN {<<>>}
    ELSE LET shorter == SeqsUpTo(S, n - 1)
         IN  shorter \cup {Append(s, x) : s \in {t \in shorter : Len(t) = n - 1}, x \in S}

\* int(time.time())
IntTime(t) == t \div TicksPerSecond

VARIABLES
    now,            \* time.time(), in ticks
    fs,             \* the server's tree: path -> file or Absent
    blobs,          \* the backup area: backup name -> file
    blocked,        \* directories of the tree that mkdir cannot create
    unwritable,     \* paths of the tree at which a copy raises
    files,          \* the server registry (table files): path -> record or NULL
    backup_files,   \* the backup log (table backup_files), in insertion order
    pc,             \* each session worker's position in handle_file_sync
    todo,           \* each worker's remaining part of files_to_sync
    request,        \* each worker's files_to_sync as the request gave it
    received_files, \* each worker's counter received_files
    sent,           \* the statuses each worker has sent in its file_sync exchange
    cur,            \* each worker's bookkeeping for the file in hand
    transfers,      \* the number of files announced to the server so far
    restores,       \* the number of restores run so far
    overwrites,     \* per path: files received while the destination existed
    restore,        \* the outcome of the last restore_files_by_time_range
    local,          \* the client's tree: path -> file or Absent
    client_files,   \* the client registry, as its last scan left it
    server_files,   \* the downloaded server registry
    files_to_sync,  \* the transfer set compare_files returns
    hashed,         \* the paths compare_files has hashed
    diffpc,         \* the client's position around compare_files
    confirmed,      \* the transfer set the server has confirmed file by file
    inbox,          \* handle_client: the message bodies the peer sends before it closes
    taken,          \* handle_client: how many of them have been received
    loop,           \* handle_client: the worker's position
    thread_db,      \* handle_client: the worker's store handle
    client_socket,  \* handle_client: the connection socket
    replies,        \* handle_client: the control messages sent, each with the request it answers
    served,         \* handle_client: the messages the dispatch loop has received, by position
    body_sent,      \* framing: the body given to send_data, or Nothing when the peer sent none
    trailing,       \* framing: the bytes the peer sent after the message
    segments,       \* framing: the bytes in flight, as the reads of the socket will find them
    got,            \* framing: what receive_data returned
    framepc,        \* framing: whether receive_data has run
    cpc,            \* start: the client's position in its retry loop
    retry_count,    \* start: retry_count
    connections,    \* start: the connections made so far
    undecodable,    \* start: the phases of this session whose reply was no JSON
    outcome,        \* start: how the retry loop was left
    pending,        \* sync_files: the files of files_to_sync still to be sent
    server_db,      \* download_server_db: the length of server_file_sync.db, or NoFile
    expected_size,  \* download_server_db: file_size, the announced length
    received_size,  \* download_server_db: received_size
    compared,       \* the registry files compare_files has been run on
    attempts,       \* start: the turns of the retry loop so far; the last socket made
    closed_sockets, \* start: the sockets closed so far
    client_db,      \* start: the client's store handle self.db
    failure,        \* start: the class of the last failure
    session,        \* start: what has happened on the current connection
    start_result,   \* start: how start() came back to its caller
    db_size,        \* handle_db_download: the length of file_sync.db, in chunks
    file_size,      \* handle_db_download: file_size, the announced length
    sent_size,      \* handle_db_download: sent_size
    wire,           \* handle_db_download: what the worker has put on the socket
    commits,        \* handle_db_download: commits of other workers so far
    dlpc,           \* handle_db_download: the worker's position
    backlog,        \* start: the connections made by clients and not yet accepted
    accepted,       \* start: the connections accept() has returned so far
    clients,        \* start: the hand-off queue self.clients
    workers,        \* handle_clients: the threads started, each with its connection
    served_by,      \* handle_client: for each connection, the threads that ran its session
    table,          \* the table files of one store, row by row in insertion order
    disk,           \* the tree the store describes: path -> size and mtime, or NoEntry
    last_op,        \* the operation that wrote the table last
    exclude_conf,   \* the directives of exclude.conf: ext:, dir: and path: values
    excluded_extensions, \* SyncClient.excluded_extensions
    excluded_directories, \* SyncClient.excluded_directories
    excluded_paths, \* SyncClient.excluded_paths
    verdict,        \* the last answer of should_exclude_file, with its path
    lengths,        \* sync_files: the length of each local file of the transfer set, as it is now
    announced,      \* sync_files: the size of each entry of the file_sync request
    streamed,       \* sync_files: the bytes the client has sent for each file so far
    consumed,       \* handle_file_sync: the bytes the server has read for each file so far
    in_flight,      \* the raw bytes sent and not yet read
    edits,          \* the changes made to local files since compare_files
    destination,    \* handle_file_sync of two sessions: the file at full_dest_path, [exists, bytes]
    backup_area,    \* the files of backup_dir by the second in their name
    backup_rows,    \* the rows of backup_files the two sessions inserted
    seconds,        \* int(time.time())
    spc,            \* where each session is in the loop body
    frame,          \* each session's locals: backup_path, file offset, stat size, bytes hashed
    sizes_sent,     \* the size of each entry of the file_sync request
    sizes_now,      \* sync_files: the length of each file when it is opened for sending
    to_client,      \* the statuses the worker has sent and the client has not yet received
    raw_bytes,      \* the file bytes the client has sent and the worker has not yet read
    desynced,       \* the client has taken a short read for a length prefix
    client_at,      \* sync_files: the receive the client is in, and the file it is at
    server_at       \* handle_file_sync: where the worker is, and the file it is at

serverVars == <<now, fs, blobs, blocked, unwritable, files, backup_files, pc, todo, request,
                received_files, sent, cur, transfers, restores, overwrites, restore>>

diffVars == <<local, client_files, server_files, files_to_sync, hashed, diffpc, confirmed>>

connVars == <<inbox, taken, loop, thread_db, client_socket, replies, served>>

frameVars == <<body_sent, trailing, segments, got, framepc>>

clientVars == <<cpc, retry_count, connections, undecodable, outcome, pending,
                server_db, expected_size, received_size, compared, attempts,
                closed_sockets, client_db, failure, session, start_result>>

downloadVars == <<db_size, file_size, sent_size, wire, commits, dlpc>>

acceptVars == <<backlog, accepted, clients, workers, served_by>>

storeVars == <<table, disk, last_op>>

excludeVars == <<exclude_conf, excluded_extensions, excluded_directories, excluded_paths, verdict>>

sendVars == <<lengths, announced, streamed, consumed, in_flight, edits>>

raceVars == <<destination, backup_area, backup_rows, seconds, spc, frame>>

exchangeVars == <<sizes_sent, sizes_now, to_client, raw_bytes, desynced, client_at, server_at>>

\* the variables of the other components
restVars == <<connVars, frameVars, clientVars, downloadVars, acceptVars, storeVars, excludeVars, sendVars, raceVars, exchangeVars>>

\* what the steps of each component leave alone
nonServerVars == <<diffVars, restVars>>
nonDiffVars == <<serverVars, restVars>>
nonConnVars == <<serverVars, diffVars, frameVars, clientVars, downloadVars, acceptVars, storeVars, excludeVars, sendVars, raceVars, exchangeVars>>
nonFrameVars == <<serverVars, diffVars, connVars, clientVars, downloadVars, acceptVars, storeVars, excludeVars, sendVars, raceVars, exchangeVars>>
nonClientVars == <<serverVars, diffVars, connVars, frameVars, downloadVars, acceptVars, storeVars, excludeVars, sendVars, raceVars, exchangeVars>>
nonDownloadVars == <<serverVars, diffVars, connVars, frameVars, clientVars, acceptVars, storeVars, excludeVars, sendVars, raceVars, exchangeVars>>
nonAcceptVars == <<serverVars, diffVars, connVars, frameVars, clientVars, downloadVars, storeVars, excludeVars, sendVars, raceVars, exchangeVars>>
nonStoreVars == <<serverVars, diffVars, connVars, frameVars, clientVars, downloadVars, acceptVars, excludeVars, sendVars, raceVars, exchangeVars>>
nonExcludeVars == <<serverVars, diffVars, connVars, frameVars, clientVars, downloadVars, acceptVars, storeVars, sendVars, raceVars, exchangeVars>>
nonSendVars == <<serverVars, diffVars, connVars, frameVars, clientVars, downloadVars, acceptVars, storeVars, excludeVars, raceVars, exchangeVars>>
nonRaceVars == <<serverVars, diffVars, connVars, frameVars, clientVars, downloadVars, acceptVars, storeVars, excludeVars, sendVars, exchangeVars>>
nonExchangeVars == <<serverVars, diffVars, connVars, frameVars, clientVars, downloadVars, acceptVars, storeVars, excludeVars, sendVars, raceVars>>

vars == <<serverVars, diffVars, restVars>>

Idle == [path |-> NoPath, existed |-> FALSE, backup_path |-> NoName, inserted |-> FALSE]
NoRestore == [ran |-> FALSE]

\* ------------------------------------------------------------ the store

\* FileDatabase.scan_directory: every file of the tree is upserted with its
\* size and mtime; INSERT OR REPLACE names no hash column, so the replaced
\* row's hash is NULL.  Paths with no file keep their row.  The column
\* last_sync_time, which no code reads, is left out of the rows.
scan_directory(reg, tree) ==
    [p \in DOMAIN reg |->
        IF tree[p] = Absent THEN reg[p]
        ELSE [size |-> tree[p].content.len, modified_time |-> tree[p].mtime,
              hash |-> NULL]]

\* a store whose INSERT replaces the row already kept for original_path
backup_file_replacing(log, original_path, backup_path, size, modified_time, t, hash_value) ==
    LET row == [original_path |-> original_path, backup_path |-> backup_path,
                size |-> size, modified_time |-> modified_time,
                backup_time |-> t, hash |-> hash_value]
    IN  IF \E i \in 1..Len(log) : log[i].original_path = original_path
        THEN [i \in 1..Len(log) |->
                 IF log[i].original_path = original_path THEN row ELSE log[i]]
        ELSE Append(log, row)

\* FileDatabase.backup_file, the INSERT: the row appended to backup_files
backup_file(log, original_path, backup_path, size, modified_time, t, hash_value) ==
    Append(log, [original_path |-> original_path, backup_path |-> backup_path,
                 size |-> size, modified_time |-> modified_time,
                 backup_time |-> t, hash |-> hash_value])

\* the name handle_file_sync gives a backup: f"{name}_{int(time.time())}"
backup_filename(p, t) == <<PathName(p), IntTime(t)>>

\* a registry write that stores no hash
upsert_without_hash(reg, p, size, modified_time, hash_value) ==
    [reg EXCEPT ![p] = [size |-> size, modified_time |-> modified_time,
                        hash |-> NULL]]

\* INSERT OR REPLACE INTO files of a confirmed transfer or a restore
upsert(reg, p, size, modified_time, hash_value) ==
    [reg EXCEPT ![p] = [size |-> size, modified_time |-> modified_time,
                        hash |-> hash_value]]

\* ------------------------------------------------------------ the state

\* the paths the client tracks, in ascending order (ORDER BY path)
DiffOrder == << <<"d1", "a.txt">>, <<"d1", "b.txt">>, <<"logs", "app.log">> >>
DiffPaths == {DiffOrder[k] : k \in 1..Len(DiffOrder)}

\* no client in the picture
NoDiff ==
    /\ local = [p \in DiffPaths |-> Absent]
    /\ client_files = [p \in DiffPaths |-> NULL]
    /\ server_files = [p \in DiffPaths |-> NULL]
    /\ files_to_sync = <<>>
    /\ hashed = {}
    /\ diffpc = "off"
    /\ confirmed = <<>>

\* no connection is being served
NoConn ==
    /\ inbox = <<>>
    /\ taken = 0
    /\ loop = "off"
    /\ thread_db = "none"
    /\ client_socket = "none"
    /\ replies = <<>>
    /\ served = <<>>

\* the return value "{}" of a closed connection, and a body returned
Sentinel == [sentinel |-> TRUE, bytes |-> <<>>]
Data(bs) == [sentinel |-> FALSE, bytes |-> bs]

\* what the peer did: sent a body, or nothing
Sent(bs) == [any |-> TRUE, body |-> bs]
Nothing == [any |-> FALSE, body |-> <<>>]

\* no message is in flight
NoFrame ==
    /\ body_sent = Nothing
    /\ trailing = <<>>
    /\ segments = <<>>
    /\ got = Data(<<>>)
    /\ framepc = "off"

\* server_file_sync.db does not exist
NoFile == -1

\* no client is running its retry loop
NoClient ==
    /\ cpc = "off"
    /\ retry_count = 0
    /\ connections = 0
    /\ undecodable = {}
    /\ outcome = "none"
    /\ pending = 0
    /\ server_db = NoFile
    /\ expected_size = 0
    /\ received_size = 0
    /\ compared = {}
    /\ attempts = 0
    /\ closed_sockets = {}
    /\ client_db = "none"
    /\ failure = "none"
    /\ session = <<>>
    /\ start_result = "none"

\* no registry download is being served
NoDownload ==
    /\ db_size = 0
    /\ file_size = 0
    /\ sent_size = 0
    /\ wire = <<>>
    /\ commits = 0
    /\ dlpc = "off"

\* the server is not listening
NoAccept ==
    /\ backlog = 0
    /\ accepted = 0
    /\ clients = <<>>
    /\ workers = <<>>
    /\ served_by = <<>>

\* no store is looked at row by row
NoStore ==
    /\ table = <<>>
    /\ disk = <<>>
    /\ last_op = "none"

\* no exclusion rule is being looked at
NoExclude ==
    /\ exclude_conf = [ext |-> {}, dir |-> {}, path |-> {}]
    /\ excluded_extensions = {}
    /\ excluded_directories = {}
    /\ excluded_paths = {}
    /\ verdict = [asked |-> FALSE, path |-> <<>>, excluded |-> FALSE]

\* no client is streaming files
NoSend ==
    /\ lengths = <<>>
    /\ announced = <<>>
    /\ streamed = <<>>
    /\ consumed = <<>>
    /\ in_flight = 0
    /\ edits = 0

\* no two sessions on one destination
NoRace ==
    /\ destination = [exists |-> FALSE, bytes |-> <<>>]
    /\ backup_area = <<>>
    /\ backup_rows = <<>>
    /\ seconds = 0
    /\ spc = [s \in Sessions |-> "off"]
    /\ frame = [s \in Sessions |-> NoLocals]

\* no file_sync exchange between a client and its session worker
NoExchange ==
    /\ sizes_sent = <<>>
    /\ sizes_now = <<>>
    /\ to_client = <<>>
    /\ raw_bytes = 0
    /\ desynced = FALSE
    /\ client_at = [at |-> "off", k |-> 0]
    /\ server_at = [at |-> "off", k |-> 0]

\* the other components at rest
RestIdle == NoConn /\ NoFrame /\ NoClient /\ NoDownload /\ NoAccept /\ NoStore /\ NoExclude /\ NoSend /\ NoRace /\ NoExchange

\* a server at rest over an empty tree
NoServer ==
    /\ now = 0
    /\ fs = [p \in Paths |-> Absent]
    /\ blobs = [b \in BackupNames |-> Absent]
    /\ blocked = {}
    /\ unwritable = {}
    /\ files = [p \in Paths |-> NULL]
    /\ backup_files = <<>>
    /\ pc = [w \in Workers |-> "idle"]
    /\ todo = [w \in Workers |-> <<>>]
    /\ request = [w \in Workers |-> <<>>]
    /\ received_files = [w \in Workers |-> 0]
    /\ sent = [w \in Workers |-> <<>>]
    /\ cur = [w \in Workers |-> Idle]
    /\ transfers = 0
    /\ restores = 0
    /\ overwrites = [p \in Paths |-> 0]
    /\ restore = NoRestore

Init ==
    /\ now = 0
    /\ fs \in [Paths -> {Absent, MkFile(ContentA, 0)}]
    /\ blobs = [b \in BackupNames |-> Absent]
    /\ blocked = {}
    /\ unwritable = {}
    /\ files = scan_directory([p \in Paths |-> NULL], fs)
    /\ backup_files = <<>>
    /\ pc = [w \in Workers |-> "idle"]
    /\ todo = [w \in Workers |-> <<>>]
    /\ request = [w \in Workers |-> <<>>]
    /\ received_files = [w \in Workers |-> 0]
    /\ sent = [w \in Workers |-> <<>>]
    /\ cur = [w \in Workers |-> Idle]
    /\ transfers = 0
    /\ restores = 0
    /\ overwrites = [p \in Paths |-> 0]
    /\ restore = NoRestore
    /\ NoDiff
    /\ RestIdle

\* --------------------------------------------- SyncServer.handle_file_sync

Info(w) == Head(todo[w])

\* the dispatch of a file_sync request: the transfer set is taken from the
\* request and {status: ready} is sent
RecvFileSync(w) ==
    /\ restore = NoRestore
    /\ pc[w] = "idle"
    /\ \E fl \in SeqsUpTo(FileInfos, MaxFiles - transfers) :
          /\ fl # <<>>
          /\ todo' = [todo EXCEPT ![w] = fl]
          /\ request' = [request EXCEPT ![w] = fl]
          /\ transfers' = transfers + Len(fl)
    /\ received_files' = [received_files EXCEPT ![w] = 0]
    /\ sent' = [sent EXCEPT ![w] = <<"ready">>]
    /\ pc' = [pc EXCEPT ![w] = "next"]
    /\ UNCHANGED <<now, fs, blobs, blocked, unwritable, files, backup_files, cur, restores, overwrites, restore>>
    /\ UNCHANGED nonServerVars

\* the head of the loop for one file: full_dest_path.exists()
CheckExists(w) ==
    /\ restore = NoRestore
    /\ pc[w] = "next"
    /\ todo[w] # <<>>
    /\ PathDir(Info(w).path) \notin blocked
    /\ LET p == Info(w).path
       IN  /\ cur' = [cur EXCEPT ![w] = [Idle EXCEPT !.path = p,
                                                    !.existed = (fs[p] # Absent)]]
           /\ pc' = [pc EXCEPT ![w] = IF fs[p] # Absent THEN "copy" ELSE "ready"]
    /\ UNCHANGED <<now, fs, blobs, blocked, unwritable, files, backup_files, todo, request, received_files, sent,
                   transfers, restores, overwrites, restore>>
    /\ UNCHANGED nonServerVars

\* shutil.copy2(full_dest_path, backup_path): content and mtime are copied
\* under the name built from the file name and int(time.time())
BackupCopy(w) ==
    /\ restore = NoRestore
    /\ pc[w] = "copy"
    /\ LET p == cur[w].path
           b == backup_filename(p, now)
       IN  /\ blobs' = [blobs EXCEPT ![b] = fs[p]]
           /\ cur' = [cur EXCEPT ![w].backup_path = b]
    /\ pc' = [pc EXCEPT ![w] = "record"]
    /\ UNCHANGED <<now, fs, blocked, unwritable, files, backup_files, todo, request, received_files, sent, transfers,
                   restores, overwrites, restore>>
    /\ UNCHANGED nonServerVars

\* db.backup_file(...) with the destination's stat and hash.  The INSERT
\* either commits (True) or raises sqlite3.Error, which backup_file turns
\* into a rollback and False; handle_file_sync does not read the result.
\* The clock moves on by a tick or by a second while the store works.
BackupRecord(w) ==
    /\ restore = NoRestore
    /\ pc[w] = "record"
    /\ LET p == cur[w].path
       IN  \E ok \in BOOLEAN :
              /\ backup_files' =
                    IF ok
                    THEN backup_file(backup_files, p, cur[w].backup_path,
                                     fs[p].content.len, fs[p].mtime, now,
                                     calculate_file_hash(fs[p].content))
                    ELSE backup_files
              /\ cur' = [cur EXCEPT ![w].inserted = ok]
    /\ \E d \in {1, TicksPerSecond} :
          /\ now + d <= MaxTime
          /\ now' = now + d
    /\ pc' = [pc EXCEPT ![w] = "ready"]
    /\ UNCHANGED <<fs, blobs, blocked, unwritable, files, todo, request, received_files, sent, transfers, restores,
                   overwrites, restore>>
    /\ UNCHANGED nonServerVars

\* a handler that goes on to receive without announcing it
SkipReadyForFile(w) ==
    /\ restore = NoRestore
    /\ pc[w] = "ready"
    /\ pc' = [pc EXCEPT ![w] = "open"]
    /\ UNCHANGED <<now, fs, blobs, blocked, unwritable, files, backup_files, todo, request,
                   received_files, sent, cur, transfers, restores, overwrites, restore>>
    /\ UNCHANGED nonServerVars

\* send {status: ready_for_file}
SendReadyForFile(w) ==
    /\ restore = NoRestore
    /\ pc[w] = "ready"
    /\ sent' = [sent EXCEPT ![w] = Append(@, "ready_for_file")]
    /\ pc' = [pc EXCEPT ![w] = "open"]
    /\ UNCHANGED <<now, fs, blobs, blocked, unwritable, files, backup_files, todo, request, received_files,
                   cur, transfers, restores, overwrites, restore>>
    /\ UNCHANGED nonServerVars

\* open(full_dest_path, 'wb'): the destination is created or truncated
OpenDest(w) ==
    /\ restore = NoRestore
    /\ pc[w] = "open"
    /\ fs' = [fs EXCEPT ![cur[w].path] = MkFile(Empty, now)]
    /\ pc' = [pc EXCEPT ![w] = "recv"]
    /\ UNCHANGED <<now, blobs, blocked, unwritable, files, backup_files, todo, request, received_files, sent, cur,
                   transfers, restores, overwrites, restore>>
    /\ UNCHANGED nonServerVars

\* the receive loop: the bytes the client streams are written
RecvBytes(w) ==
    /\ restore = NoRestore
    /\ pc[w] = "recv"
    /\ \E c \in SyncContents :
          /\ c.len = Info(w).size
          /\ fs' = [fs EXCEPT ![cur[w].path] = MkFile(c, now)]
    /\ overwrites' = [overwrites EXCEPT ![cur[w].path] =
                         IF cur[w].existed THEN @ + 1 ELSE @]
    /\ pc' = [pc EXCEPT ![w] = "verify"]
    /\ UNCHANGED <<now, blobs, blocked, unwritable, files, backup_files, todo, request, received_files, sent, cur,
                   transfers, restores, restore>>
    /\ UNCHANGED nonServerVars

\* a handler that counts and records a file whatever its hash
VerifyHashRecording(w) ==
    /\ restore = NoRestore
    /\ pc[w] = "verify"
    /\ LET p == cur[w].path
           i == Info(w)
       IN  /\ sent' = [sent EXCEPT ![w] =
                          Append(@, IF calculate_file_hash(fs[p].content) # i.hash
                                    THEN "hash_mismatch" ELSE "file_received")]
           /\ fs' = [fs EXCEPT ![p].mtime = i.modified_time]
           /\ files' = upsert(files, p, i.size, i.modified_time, i.hash)
           /\ received_files' = [received_files EXCEPT ![w] = @ + 1]
    /\ todo' = [todo EXCEPT ![w] = Tail(@)]
    /\ cur' = [cur EXCEPT ![w] = Idle]
    /\ pc' = [pc EXCEPT ![w] = "next"]
    /\ UNCHANGED <<now, blobs, blocked, unwritable, backup_files, request, transfers, restores,
                   overwrites, restore>>
    /\ UNCHANGED nonServerVars

\* a handler that confirms a file without comparing hashes
VerifyHashAccepting(w) ==
    /\ restore = NoRestore
    /\ pc[w] = "verify"
    /\ LET p == cur[w].path
           i == Info(w)
       IN  /\ fs' = [fs EXCEPT ![p].mtime = i.modified_time]
           /\ files' = upsert(files, p, i.size, i.modified_time, i.hash)
           /\ received_files' = [received_files EXCEPT ![w] = @ + 1]
           /\ sent' = [sent EXCEPT ![w] = Append(@, "file_received")]
    /\ todo' = [todo EXCEPT ![w] = Tail(@)]
    /\ cur' = [cur EXCEPT ![w] = Idle]
    /\ pc' = [pc EXCEPT ![w] = "next"]
    /\ UNCHANGED <<now, blobs, blocked, unwritable, backup_files, request, transfers, restores,
                   overwrites, restore>>
    /\ UNCHANGED nonServerVars

\* a handler that confirms and records a file without counting it
VerifyHashUncounted(w) ==
    /\ restore = NoRestore
    /\ pc[w] = "verify"
    /\ LET p == cur[w].path
           i == Info(w)
       IN  IF calculate_file_hash(fs[p].content) # i.hash
           THEN /\ sent' = [sent EXCEPT ![w] = Append(@, "hash_mismatch")]
                /\ UNCHANGED <<fs, files>>
           ELSE /\ fs' = [fs EXCEPT ![p].mtime = i.modified_time]
                /\ files' = upsert(files, p, i.size, i.modified_time, i.hash)
                /\ sent' = [sent EXCEPT ![w] = Append(@, "file_received")]
    /\ todo' = [todo EXCEPT ![w] = Tail(@)]
    /\ cur' = [cur EXCEPT ![w] = Idle]
    /\ pc' = [pc EXCEPT ![w] = "next"]
    /\ UNCHANGED <<now, blobs, blocked, unwritable, backup_files, request, received_files,
                   transfers, restores, overwrites, restore>>
    /\ UNCHANGED nonServerVars

\* the hash of the written file is compared with the announced one
VerifyHash(w) ==
    /\ restore = NoRestore
    /\ pc[w] = "verify"
    /\ LET p == cur[w].path
           i == Info(w)
       IN  IF calculate_file_hash(fs[p].content) # i.hash
           THEN /\ sent' = [sent EXCEPT ![w] = Append(@, "hash_mismatch")]
                /\ UNCHANGED <<fs, files, received_files>>
           ELSE /\ fs' = [fs EXCEPT ![p].mtime = i.modified_time]
                /\ files' = upsert(files, p, i.size, i.modified_time, i.hash)
                /\ received_files' = [received_files EXCEPT ![w] = @ + 1]
                /\ sent' = [sent EXCEPT ![w] = Append(@, "file_received")]
    /\ todo' = [todo EXCEPT ![w] = Tail(@)]
    /\ cur' = [cur EXCEPT ![w] = Idle]
    /\ pc' = [pc EXCEPT ![w] = "next"]
    /\ UNCHANGED <<now, blobs, blocked, unwritable, backup_files, request, transfers, restores,
                   overwrites, restore>>
    /\ UNCHANGED nonServerVars

\* after the last file: send {status: sync_complete, received_files: K}
SyncComplete(w) ==
    /\ restore = NoRestore
    /\ pc[w] = "next"
    /\ todo[w] = <<>>
    /\ sent' = [sent EXCEPT ![w] = Append(@, "sync_complete")]
    /\ pc' = [pc EXCEPT ![w] = "idle"]
    /\ UNCHANGED <<now, fs, blobs, blocked, unwritable, files, backup_files, todo, request, received_files,
                   cur, transfers, restores, overwrites, restore>>
    /\ UNCHANGED nonServerVars

\* ------------------------------------ FileRestorer.restore_files_by_time_range

\* the indices of the rows of log with start <= backup_time <= end
InRange(log, start, end) ==
    {i \in 1..Len(log) : log[i].backup_time >= start /\ log[i].backup_time <= end}

\* ORDER BY backup_time DESC over the rows with indices in I (rows of equal
\* backup_time in rowid order)
RECURSIVE OrderDesc(_, _)
OrderDesc(log, I) ==
    IF I = {} THEN <<>>
    ELSE LET i == CHOOSE k \in I : \A j \in I :
                      \/ log[k].backup_time > log[j].backup_time
                      \/ log[k].backup_time = log[j].backup_time /\ k <= j
         IN  <<log[i]>> \o OrderDesc(log, I \ {i})

\* FileDatabase.get_backup_files_by_time_range
get_backup_files_by_time_range(log, start, end) ==
    OrderDesc(log, InRange(log, start, end))

\* a selection that keeps the oldest row of a path
NewerReversed(b, kept) == b.backup_time < kept.backup_time

\* the test that lets a row replace the one kept for its path
Newer(b, kept) == b.backup_time > kept.backup_time

\* the dict latest_backups, as the sequence of its values in insertion order
RECURSIVE LatestBackups(_, _)
LatestBackups(rows, acc) ==
    IF rows = <<>> THEN acc
    ELSE LET b == Head(rows)
             at == {k \in 1..Len(acc) : acc[k].original_path = b.original_path}
         IN  IF at = {} THEN LatestBackups(Tail(rows), Append(acc, b))
             ELSE LET k == CHOOSE x \in at : TRUE
                  IN  IF Newer(b, acc[k])
                      THEN LatestBackups(Tail(rows), [acc EXCEPT ![k] = b])
                      ELSE LatestBackups(Tail(rows), acc)

\* the loop over latest_backups.items().  st carries the tree, the registry
\* as written (not yet committed), the count and what happened to each item.
\* A missing blob skips the item, and so does a shutil.copy2 that raises;
\* mkdir of the parent is called outside the try block, so its exception
\* leaves the loop and the method.
RECURSIVE RestoreLoop(_, _)
RestoreLoop(sel, st) ==
    IF sel = <<>> THEN st
    ELSE LET b == Head(sel)
             p == b.original_path
         IN  IF blobs[b.backup_path] = Absent
             THEN RestoreLoop(Tail(sel), [st EXCEPT !.skipped = @ \cup {p}])
             ELSE IF PathDir(p) \in blocked
             THEN [st EXCEPT !.aborted = TRUE]
             ELSE IF p \in unwritable
             THEN RestoreLoop(Tail(sel), [st EXCEPT !.skipped = @ \cup {p}])
             ELSE RestoreLoop(Tail(sel),
                     [st EXCEPT !.tree[p] = MkFile(blobs[b.backup_path].content,
                                                   b.modified_time),
                                !.reg = upsert(@, p, b.size, b.modified_time, b.hash),
                                !.count = @ + 1,
                                !.replayed = @ \cup {b}])

\* restore_files_by_time_range(start_time, end_time), run by the operator
\* while no transfer is in progress.  The registry rows are committed after
\* the loop only; an exception loses them and returns no count.
restore_files_by_time_range(start, end) ==
    /\ restore = NoRestore
    /\ \A w \in Workers : pc[w] = "idle"
    /\ restores < MaxRestores
    /\ start <= end
    /\ LET rows == get_backup_files_by_time_range(backup_files, start, end)
           sel == LatestBackups(rows, <<>>)
           st0 == [tree |-> fs, reg |-> files, count |-> 0, aborted |-> FALSE,
                   skipped |-> {}, replayed |-> {}]
           st == RestoreLoop(sel, st0)
       IN  /\ fs' = st.tree
           /\ files' = IF st.aborted THEN files ELSE st.reg
           /\ restore' = [ran |-> TRUE, start |-> start, end |-> end,
                          selected |-> sel, replayed |-> st.replayed,
                          skipped |-> st.skipped, aborted |-> st.aborted,
                          count |-> st.count]
    /\ restores' = restores + 1
    /\ UNCHANGED <<now, blobs, blocked, unwritable, backup_files, pc, todo, request,
                   received_files, sent, cur, transfers, overwrites>>
    /\ UNCHANGED nonServerVars

\* FileRestorer.close(): the restore's outcome is no longer looked at
RestoreClose ==
    /\ restore # NoRestore
    /\ restore' = NoRestore
    /\ UNCHANGED <<now, fs, blobs, blocked, unwritable, files, backup_files, pc, todo, request,
                   received_files, sent, cur, transfers, restores, overwrites>>
    /\ UNCHANGED nonServerVars

\* SyncServer.__init__ at a restart of the server: scan_parent_directory
ScanParentDirectory ==
    /\ restore = NoRestore
    /\ \A w \in Workers : pc[w] = "idle"
    /\ files' = scan_directory(files, fs)
    /\ UNCHANGED <<now, fs, blobs, blocked, unwritable, backup_files, pc, todo, request,
                   received_files, sent, cur, transfers, restores, overwrites, restore>>
    /\ UNCHANGED nonServerVars

Next ==
    \/ \E w \in Workers :
          \/ RecvFileSync(w)
          \/ CheckExists(w)
          \/ BackupCopy(w)
          \/ BackupRecord(w)
          \/ SendReadyForFile(w)
          \/ OpenDest(w)
          \/ RecvBytes(w)
          \/ VerifyHash(w)
          \/ SyncComplete(w)
    \/ \E start \in 0..MaxTime, end \in 0..MaxTime :
          restore_files_by_time_range(start, end)
    \/ RestoreClose
    \/ ScanParentDirectory

Spec == Init /\ [][Next]_vars

\* ------------------------------------------------- the restorer on its own
\* FileRestorer.__init__ opens the store and the tree as the server left
\* them: a backup log of up to MaxLog rows, in any order of backup_time (two
\* session workers may insert out of order), every row's blob in the backup
\* area under the name the server gave it.  The process runs one restore
\* (cli.py, restore_files_interactive) and no transfer.

LogRow(p, t) ==
    [original_path |-> p, backup_path |-> backup_filename(p, t), size |-> ContentA.len,
     modified_time |-> 0, backup_time |-> t, hash |-> calculate_file_hash(ContentA)]

LogRows == {LogRow(p, t) : p \in Paths, t \in 0..MaxTime}

Synced(tree) ==
    [p \in Paths |->
        IF tree[p] = Absent THEN NULL
        ELSE [size |-> tree[p].content.len, modified_time |-> tree[p].mtime,
              hash |-> calculate_file_hash(tree[p].content)]]

\* the faults of the environment a restore can meet, one at a time
NoFault == [kind |-> "none"]
Faults(log) ==
    {NoFault}
    \cup {[kind |-> "missing", blob |-> log[i].backup_path] : i \in 1..Len(log)}
    \cup {[kind |-> "blocked", dir |-> d] : d \in Dirs}
    \cup {[kind |-> "unwritable", path |-> q] : q \in Paths}

InitRestorer(log, fault) ==
    /\ now = MaxTime
    /\ backup_files = log
    /\ blocked = IF fault.kind = "blocked" THEN {fault.dir} ELSE {}
    /\ unwritable = IF fault.kind = "unwritable" THEN {fault.path} ELSE {}
    /\ blobs = [b \in BackupNames |->
                  IF /\ \E i \in 1..Len(log) : log[i].backup_path = b
                     /\ ~(fault.kind = "missing" /\ fault.blob = b)
                  THEN MkFile(ContentA, 0) ELSE Absent]
    /\ fs = [p \in Paths |-> IF PathDir(p) \in blocked THEN Absent ELSE MkFile(ContentB, 5)]
    /\ files = Synced([p \in Paths |-> MkFile(ContentB, 5)])
    /\ pc = [w \in Workers |-> "idle"]
    /\ todo = [w \in Workers |-> <<>>]
    /\ request = [w \in Workers |-> <<>>]
    /\ received_files = [w \in Workers |-> 0]
    /\ sent = [w \in Workers |-> <<>>]
    /\ cur = [w \in Workers |-> Idle]
    /\ transfers = MaxFiles
    /\ restores = MaxRestores - 1
    /\ overwrites = [p \in Paths |-> 0]
    /\ restore = NoRestore
    /\ NoDiff
    /\ RestIdle

InitRestore == \E log \in SeqsUpTo(LogRows, MaxLog) : InitRestorer(log, NoFault)

InitFaulty ==
    \E log \in SeqsUpTo(LogRows, MaxLog) : \E fault \in Faults(log) :
        InitRestorer(log, fault)

NextRestore ==
    \/ \E start \in 0..MaxTime, end \in 0..MaxTime :
          restore_files_by_time_range(start, end)
    \/ RestoreClose

\* ------------------------------------------------ the client's diff engine

\* config.py: the built-in exclusion rules
EXCLUDED_EXTENSIONS == {".db", ".db-journal", ".log", ".pyc", ".pyo", ".pyd"}
EXCLUDED_DIRECTORIES == {"__pycache__", "backups", "logs", ".git"}
EXCLUDED_PATHS == {}

\* Path(name).suffix of the file names in use
PathSuffix(name) ==
    CASE name = "a.txt" -> ".txt"
      [] name = "b.txt" -> ".txt"
      [] name = "A.TXT" -> ".TXT"
      [] name = "app.log" -> ".log"
      [] name = "app.LOG" -> ".LOG"
      [] OTHER -> ""

\* str.lower() of the extensions in use
Lower(ext) ==
    CASE ext = ".TXT" -> ".txt"
      [] ext = ".LOG" -> ".log"
      [] OTHER -> ext

\* Path(path).suffix.lower() of the file names in use
Suffix(name) == Lower(PathSuffix(name))

\* str_path == excluded_path or str_path.startswith(excluded_path + '/'),
\* an excluded path being a sequence of segments
UnderPath(path, ex) ==
    /\ Len(ex) <= Len(path)
    /\ \A k \in 1..Len(ex) : ex[k] = path[k]

\* SyncClient.should_exclude_file, over the three rule sets of the client
should_exclude(path, extensions, directories, paths) ==
    \/ \E ex \in paths : UnderPath(path, ex)
    \/ Suffix(path[Len(path)]) \in extensions
    \/ \E k \in 1..Len(path) : path[k] \in directories

\* SyncClient.should_exclude_file of a client that found no exclude.conf
should_exclude_file(path) ==
    should_exclude(path, EXCLUDED_EXTENSIONS, EXCLUDED_DIRECTORIES, EXCLUDED_PATHS)

Abs(x) == IF x < 0 THEN -x ELSE x

\* a candidate test with inclusive thresholds
CandidateInclusive(cf, sf) ==
    \/ sf = NULL
    \/ Abs(cf.size - sf.size) >= DEFAULT_SIZE_THRESHOLD
    \/ Abs(cf.modified_time - sf.modified_time) >= DEFAULT_TIME_THRESHOLD * TicksPerSecond

\* the test that makes a path a transfer candidate; sf is the server's row
\* or NULL.  modified_time is in ticks, the threshold in seconds.
Candidate(cf, sf) ==
    \/ sf = NULL
    \/ Abs(cf.size - sf.size) > DEFAULT_SIZE_THRESHOLD
    \/ Abs(cf.modified_time - sf.modified_time) > DEFAULT_TIME_THRESHOLD * TicksPerSecond

\* a comparison that never finds the server's hash equal
SameHashIgnored(sf, file_hash) == FALSE

\* the server has the file with the hash just computed
SameHash(sf, file_hash) == sf # NULL /\ sf.hash = file_hash

\* the loop of compare_files over the client's rows in path order; acc
\* carries files_to_sync and the paths hashed so far
RECURSIVE CompareLoop(_, _, _, _, _)
CompareLoop(order, creg, sreg, tree, acc) ==
    IF order = <<>> THEN acc
    ELSE LET path == Head(order)
             rest == Tail(order)
         IN  IF creg[path] = NULL \/ should_exclude_file(path)
             THEN CompareLoop(rest, creg, sreg, tree, acc)
             ELSE IF ~Candidate(creg[path], sreg[path]) \/ tree[path] = Absent
             THEN CompareLoop(rest, creg, sreg, tree, acc)
             ELSE LET file_hash == calculate_file_hash(tree[path].content)
                      acc1 == [acc EXCEPT !.hashed = @ \cup {path}]
                  IN  IF SameHash(sreg[path], file_hash)
                      THEN CompareLoop(rest, creg, sreg, tree, acc1)
                      ELSE CompareLoop(rest, creg, sreg, tree,
                              [acc1 EXCEPT !.out = Append(@,
                                  [path |-> path, size |-> tree[path].content.len,
                                   modified_time |-> tree[path].mtime,
                                   hash |-> file_hash])])

\* SyncClient.compare_files(server_db_path)
compare_files ==
    /\ diffpc \in {"start", "downloaded"}
    /\ LET r == CompareLoop(DiffOrder, client_files, server_files, local,
                            [out |-> <<>>, hashed |-> {}])
       IN  /\ files_to_sync' = r.out
           /\ hashed' = r.hashed
    /\ diffpc' = IF diffpc = "start" THEN "done" ELSE "again"
    /\ UNCHANGED <<local, client_files, server_files, confirmed>>
    /\ UNCHANGED nonDiffVars

\* the inputs of compare_files: sizes and times on both sides of the
\* thresholds, a local file that may have changed since the client's scan,
\* a server row left by a scan (hash NULL) or by a confirmed transfer
DiffSizes == {5, 5 + DEFAULT_SIZE_THRESHOLD, 6 + DEFAULT_SIZE_THRESHOLD}
DiffMtimes == {0, DEFAULT_TIME_THRESHOLD * TicksPerSecond,
               DEFAULT_TIME_THRESHOLD * TicksPerSecond + 1}
DiffContents == [len : DiffSizes, v : {0, 1}]
DiffFiles == {Absent} \cup {MkFile(c, m) : c \in DiffContents, m \in DiffMtimes}
ClientRows == {NULL} \cup [size : DiffSizes, modified_time : DiffMtimes, hash : {NULL}]
ServerRows ==
    {NULL} \cup UNION {{[size |-> c.len, modified_time |-> m, hash |-> h] :
                           m \in DiffMtimes, h \in {NULL, calculate_file_hash(c)}} :
                        c \in DiffContents}

\* the first path takes every input; the log file, which the built-in rules
\* exclude, is tracked by the client and unknown to the server; the path
\* between them is on neither side
Varied == DiffOrder[1]
Logged == DiffOrder[Len(DiffOrder)]
LogFile == MkFile([len |-> 5, v |-> 0], 0)
LogRowScanned == [size |-> 5, modified_time |-> 0, hash |-> NULL]
Untracked(p, logged, none) == IF p = Logged THEN logged ELSE none

InitDiff ==
    /\ now = 0
    /\ fs = [p \in Paths |-> Absent]
    /\ blobs = [b \in BackupNames |-> Absent]
    /\ blocked = {}
    /\ unwritable = {}
    /\ files = [p \in Paths |-> NULL]
    /\ backup_files = <<>>
    /\ pc = [w \in Workers |-> "idle"]
    /\ todo = [w \in Workers |-> <<>>]
    /\ request = [w \in Workers |-> <<>>]
    /\ received_files = [w \in Workers |-> 0]
    /\ sent = [w \in Workers |-> <<>>]
    /\ cur = [w \in Workers |-> Idle]
    /\ transfers = 0
    /\ restores = 0
    /\ overwrites = [p \in Paths |-> 0]
    /\ restore = NoRestore
    /\ \E f \in DiffFiles :
          local = [p \in DiffPaths |-> IF p = Varied THEN f ELSE Untracked(p, LogFile, Absent)]
    /\ \E c \in ClientRows :
          client_files = [p \in DiffPaths |-> IF p = Varied THEN c ELSE Untracked(p, LogRowScanned, NULL)]
    /\ \E r \in ServerRows :
          server_files = [p \in DiffPaths |-> IF p = Varied THEN r ELSE NULL]
    /\ files_to_sync = <<>>
    /\ hashed = {}
    /\ diffpc = "start"
    /\ confirmed = <<>>
    /\ RestIdle

SpecDiff == InitDiff /\ [][compare_files]_vars

\* compare_files over two paths no rule excludes: each one tracked or not,
\* its file gone, as scanned or rewritten since the scan, its server row
\* absent, equal in hash, or different
PairContents == [len : {5, 6 + DEFAULT_SIZE_THRESHOLD}, v : {0, 1}]
PairFiles == {Absent} \cup {MkFile(c, 1) : c \in PairContents}
PairClientRows == {NULL, [size |-> 5, modified_time |-> 0, hash |-> NULL]}
PairServerRows ==
    {NULL,
     [size |-> 5, modified_time |-> 0, hash |-> calculate_file_hash([len |-> 5, v |-> 0])],
     [size |-> 6 + DEFAULT_SIZE_THRESHOLD, modified_time |-> 0, hash |-> NULL]}

InitCompare ==
    /\ NoServer
    /\ \E f \in [DiffPaths \ {Logged} -> PairFiles] :
          local = [p \in DiffPaths |-> IF p = Logged THEN LogFile ELSE f[p]]
    /\ \E c \in [DiffPaths \ {Logged} -> PairClientRows] :
          client_files = [p \in DiffPaths |-> IF p = Logged THEN LogRowScanned ELSE c[p]]
    /\ \E r \in [DiffPaths \ {Logged} -> PairServerRows] :
          server_files = [p \in DiffPaths |-> IF p = Logged THEN NULL ELSE r[p]]
    /\ files_to_sync = <<>>
    /\ hashed = {}
    /\ diffpc = "start"
    /\ confirmed = <<>>
    /\ RestIdle

SpecCompare == InitCompare /\ [][compare_files]_vars

\* ------------------------------------------------- two sessions of a client
\* A session is download, compare_files, sync_files; the next one runs over
\* the same tree and the same client registry.

\* the registry after the server has confirmed every file of the list with
\* file_received: the INSERT OR REPLACE of handle_file_sync, file by file
RECURSIVE ConfirmAll(_, _)
ConfirmAll(list, reg) ==
    IF list = <<>> THEN reg
    ELSE LET i == Head(list)
         IN  ConfirmAll(Tail(list), upsert(reg, i.path, i.size, i.modified_time, i.hash))

\* SyncClient.sync_files with a server that confirms every file: the bytes
\* streamed are those hashed by compare_files, the tree being unchanged
sync_files ==
    /\ diffpc = "done"
    /\ files' = ConfirmAll(files_to_sync, files)
    /\ confirmed' = files_to_sync
    /\ diffpc' = "synced"
    /\ UNCHANGED <<local, client_files, server_files, files_to_sync, hashed>>
    /\ UNCHANGED <<now, fs, blobs, blocked, unwritable, backup_files, pc, todo, request,
                   received_files, sent, cur, transfers, restores, overwrites, restore>>
    /\ UNCHANGED restVars

\* SyncClient.download_server_db: the copy of the server's registry
download_server_db ==
    /\ diffpc = "synced"
    /\ server_files' = files
    /\ diffpc' = "downloaded"
    /\ UNCHANGED <<local, client_files, files_to_sync, hashed, confirmed>>
    /\ UNCHANGED nonDiffVars

\* the first download has been taken from the server's registry
InitSession ==
    /\ now = 0
    /\ fs = [p \in Paths |-> Absent]
    /\ blobs = [b \in BackupNames |-> Absent]
    /\ blocked = {}
    /\ unwritable = {}
    /\ backup_files = <<>>
    /\ pc = [w \in Workers |-> "idle"]
    /\ todo = [w \in Workers |-> <<>>]
    /\ request = [w \in Workers |-> <<>>]
    /\ received_files = [w \in Workers |-> 0]
    /\ sent = [w \in Workers |-> <<>>]
    /\ cur = [w \in Workers |-> Idle]
    /\ transfers = 0
    /\ restores = 0
    /\ overwrites = [p \in Paths |-> 0]
    /\ restore = NoRestore
    /\ \E f \in DiffFiles :
          local = [p \in DiffPaths |-> IF p = Varied THEN f ELSE Untracked(p, LogFile, Absent)]
    /\ \E c \in ClientRows :
          client_files = [p \in DiffPaths |-> IF p = Varied THEN c ELSE Untracked(p, LogRowScanned, NULL)]
    /\ \E r \in ServerRows :
          server_files = [p \in DiffPaths |-> IF p = Varied THEN r ELSE NULL]
    /\ files = server_files
    /\ files_to_sync = <<>>
    /\ hashed = {}
    /\ diffpc = "start"
    /\ confirmed = <<>>
    /\ RestIdle

NextSession ==
    \/ compare_files
    \/ sync_files
    \/ download_server_db

SpecSession == InitSession /\ [][NextSession]_vars

SpecRestore == InitRestore /\ [][NextRestore]_vars

SpecFaulty == InitFaulty /\ [][NextRestore]_vars

\* ------------------------------------------------ SyncServer.handle_client
\* One connection and its session worker.  A message body is a JSON object
\* (with its type, or with the status of a client's answer), a JSON value
\* that is no object, a text that is no JSON, bytes that are no UTF-8, or
\* the two characters {}.  A time_sync or file_sync request is sound when
\* its handler runs to its end, and unsound when the handler raises (a
\* missing client_time, a file_info without path).

RequestTypes == {"time_sync", "db_download", "file_sync", "close", "ping"}

Body(kind, type, status, sound) ==
    [kind |-> kind, type |-> type, status |-> status, sound |-> sound]

Bodies ==
    {Body("object", t, "none", TRUE) : t \in RequestTypes}
    \cup {Body("object", t, "none", FALSE) : t \in {"time_sync", "file_sync"}}
    \cup {Body("object", "none", "ready", TRUE)}
    \cup {Body(k, "none", "none", TRUE) : k \in {"value", "text", "bytes", "empty"}}

\* receive_data on the connection: the k-th body, or {} once the peer has
\* closed
Received(k) ==
    IF k <= Len(inbox) THEN inbox[k] ELSE Body("empty", "none", "none", TRUE)

Reply(k, status, message) == [to |-> k, status |-> status, message |-> message]

\* handle_db_download after {status: ok, size: N}: the next message is
\* taken as the client's answer, and the registry is streamed if it says
\* ready.  The handler catches what is raised in it and sends an error.
AfterSize(k, m) ==
    CASE m.kind = "object" /\ m.status = "ready" -> <<Reply(k, "stream", "registry")>>
      [] m.kind = "bytes" -> <<Reply(k, "error", "exception")>>
      [] OTHER -> <<>>

\* a dispatch that serves file_sync only after a time_sync has been answered
DispatchInOrder(k, b, m) ==
    CASE b.kind = "empty" -> [out |-> <<>>, used |-> 1, exit |-> "break"]
      [] b.kind = "bytes" -> [out |-> <<>>, used |-> 1, exit |-> "raise"]
      [] b.kind = "text" ->
            [out |-> <<Reply(k, "error", "Invalid JSON data")>>, used |-> 1, exit |-> "no"]
      [] b.kind = "value" -> [out |-> <<>>, used |-> 1, exit |-> "raise"]
      [] b.type = "time_sync" ->
            IF b.sound
            THEN [out |-> <<Reply(k, "ok", "server_time")>>, used |-> 1, exit |-> "no"]
            ELSE [out |-> <<>>, used |-> 1, exit |-> "raise"]
      [] b.type = "db_download" ->
            [out |-> <<Reply(k, "ok", "size")>> \o AfterSize(k, m), used |-> 2, exit |-> "no"]
      [] b.type = "file_sync" ->
            IF ~\E i \in 1..Len(replies) : replies[i].message = "server_time"
            THEN [out |-> <<Reply(k, "error", "Unknown request type")>>, used |-> 1,
                  exit |-> "no"]
            ELSE IF b.sound
            THEN [out |-> <<Reply(k, "ready", ""), Reply(k, "sync_complete", "")>>,
                  used |-> 1, exit |-> "no"]
            ELSE [out |-> <<Reply(k, "ready", "")>>, used |-> 1, exit |-> "raise"]
      [] b.type = "close" -> [out |-> <<>>, used |-> 1, exit |-> "break"]
      [] OTHER ->
            [out |-> <<Reply(k, "error", "Unknown request type")>>, used |-> 1, exit |-> "no"]

\* one turn of the while loop on the k-th message b, m being the message
\* after it: the control messages sent, the messages used up, and how the
\* loop is left (not at all, by break, or by an exception)
Dispatch(k, b, m) ==
    CASE b.kind = "empty" -> [out |-> <<>>, used |-> 1, exit |-> "break"]
      [] b.kind = "bytes" -> [out |-> <<>>, used |-> 1, exit |-> "raise"]
      [] b.kind = "text" ->
            [out |-> <<Reply(k, "error", "Invalid JSON data")>>, used |-> 1, exit |-> "no"]
      [] b.kind = "value" -> [out |-> <<>>, used |-> 1, exit |-> "raise"]
      [] b.type = "time_sync" ->
            IF b.sound
            THEN [out |-> <<Reply(k, "ok", "server_time")>>, used |-> 1, exit |-> "no"]
            ELSE [out |-> <<>>, used |-> 1, exit |-> "raise"]
      [] b.type = "db_download" ->
            [out |-> <<Reply(k, "ok", "size")>> \o AfterSize(k, m), used |-> 2, exit |-> "no"]
      [] b.type = "file_sync" ->
            IF b.sound
            THEN [out |-> <<Reply(k, "ready", ""), Reply(k, "sync_complete", "")>>,
                  used |-> 1, exit |-> "no"]
            ELSE [out |-> <<Reply(k, "ready", "")>>, used |-> 1, exit |-> "raise"]
      [] b.type = "close" -> [out |-> <<>>, used |-> 1, exit |-> "break"]
      [] OTHER ->
            [out |-> <<Reply(k, "error", "Unknown request type")>>, used |-> 1, exit |-> "no"]

\* a worker that releases nothing when an exception ends its loop
LeaveOnBreak(exit) ==
    IF exit = "raise"
    THEN /\ loop' = "closed"
         /\ UNCHANGED <<thread_db, client_socket>>
    ELSE /\ loop' = IF exit = "no" THEN "serving" ELSE "closed"
         /\ thread_db' = IF exit = "no" THEN thread_db ELSE "closed"
         /\ client_socket' = IF exit = "no" THEN client_socket ELSE "closed"

\* the finally clause: thread_db.close() and client_socket.close(), on a
\* break as on an exception
Leave(exit) ==
    /\ loop' = IF exit = "no" THEN "serving" ELSE "closed"
    /\ thread_db' = IF exit = "no" THEN thread_db ELSE "closed"
    /\ client_socket' = IF exit = "no" THEN client_socket ELSE "closed"

\* the start of handle_client: the worker opens its own store handle
OpenThreadDb ==
    /\ loop = "accepted"
    /\ thread_db' = "open"
    /\ loop' = "serving"
    /\ UNCHANGED <<inbox, taken, client_socket, replies, served>>
    /\ UNCHANGED nonConnVars

\* one turn of the loop; an exception is answered with an error message by
\* the except clause
Serve ==
    /\ loop = "serving"
    /\ LET k == taken + 1
           d == Dispatch(k, Received(k), Received(k + 1))
       IN  /\ replies' = replies \o d.out
                            \o (IF d.exit = "raise"
                                THEN <<Reply(k, "error", "exception")>> ELSE <<>>)
           /\ taken' = taken + d.used
           /\ served' = Append(served, k)
           /\ Leave(d.exit)
    /\ UNCHANGED inbox
    /\ UNCHANGED nonConnVars

InitConn ==
    /\ NoServer
    /\ NoDiff
    /\ NoExchange
    /\ NoRace
    /\ NoSend
    /\ NoExclude
    /\ NoStore
    /\ NoAccept
    /\ inbox \in SeqsUpTo(Bodies, MaxRequests)
    /\ taken = 0
    /\ loop = "accepted"
    /\ thread_db = "none"
    /\ client_socket = "open"
    /\ replies = <<>>
    /\ served = <<>>
    /\ NoFrame
    /\ NoClient
    /\ NoDownload

NextConn ==
    \/ OpenThreadDb
    \/ Serve

SpecConn == InitConn /\ [][NextConn]_vars

\* ------------------------------------------- utils.send_data, receive_data
\* A byte is a number below 256, a body a non-empty sequence of bytes.  The
\* socket hands out the bytes in flight segment by segment: recv(n) returns
\* at most n bytes and never more than the first segment holds; with no byte
\* left it returns the empty string of a closed peer.

RECURSIVE FromBytes(_)
\* int.from_bytes(bs, byteorder='big')
FromBytes(bs) ==
    IF bs = <<>> THEN 0
    ELSE 256 * FromBytes(SubSeq(bs, 1, Len(bs) - 1)) + bs[Len(bs)]

\* length.to_bytes(4, byteorder='big')
ToBytes4(n) ==
    <<(n \div 16777216) % 256, (n \div 65536) % 256, (n \div 256) % 256, n % 256>>

\* send_data: the bytes sendall puts on the stream
send_data(body) == ToBytes4(Len(body)) \o body

Min(a, b) == IF a < b THEN a ELSE b

\* sock.recv(n): the chunk returned and the segments left
recv(segs, n) ==
    IF segs = <<>> THEN [chunk |-> <<>>, rest |-> <<>>]
    ELSE LET h == Head(segs)
         IN  IF Len(h) <= n
             THEN [chunk |-> h, rest |-> Tail(segs)]
             ELSE [chunk |-> SubSeq(h, 1, n),
                   rest |-> <<SubSeq(h, n + 1, Len(h))>> \o Tail(segs)]

\* the while loop of receive_data: chunks are added until length bytes are
\* there or a read returns nothing
RECURSIVE ReadBody(_, _, _)
ReadBody(segs, length, data) ==
    IF Len(data) >= length THEN [data |-> data, rest |-> segs]
    ELSE LET r == recv(segs, Min(DEFAULT_BUFFER_SIZE, length - Len(data)))
         IN  IF r.chunk = <<>> THEN [data |-> data, rest |-> r.rest]
             ELSE ReadBody(r.rest, length, data \o r.chunk)

\* receive_data(sock): the value returned and the segments left unread
receive_data(segs) ==
    LET first == recv(segs, 4)
    IN  IF first.chunk = <<>> THEN [data |-> Sentinel, rest |-> first.rest]
        ELSE LET b == ReadBody(first.rest, FromBytes(first.chunk), <<>>)
             IN  IF b.data = <<>> THEN [data |-> Sentinel, rest |-> b.rest]
                 ELSE [data |-> Data(b.data), rest |-> b.rest]

\* every way of cutting a byte string into non-empty segments
RECURSIVE Splits(_)
Splits(bs) ==
    IF bs = <<>> THEN {<<>>}
    ELSE UNION {{<<SubSeq(bs, 1, k)>> \o r : r \in Splits(SubSeq(bs, k + 1, Len(bs)))} :
                  k \in 1..Len(bs)}

RECURSIVE Join(_)
Join(segs) == IF segs = <<>> THEN <<>> ELSE Head(segs) \o Join(Tail(segs))

FrameBodies == UNION {[1..n -> {123, 125}] : n \in 1..MaxBody}

\* the receiver's call
ReceiveData ==
    /\ framepc = "sent"
    /\ LET r == receive_data(segments)
       IN  /\ got' = r.data
           /\ segments' = r.rest
    /\ framepc' = "received"
    /\ UNCHANGED <<body_sent, trailing>>
    /\ UNCHANGED nonFrameVars

\* the peer has sent one message and the first bytes of the next, or has
\* sent nothing, and has closed
InitFrame ==
    /\ NoServer
    /\ NoDiff
    /\ NoExchange
    /\ NoRace
    /\ NoSend
    /\ NoExclude
    /\ NoStore
    /\ NoAccept
    /\ NoConn
    /\ NoClient
    /\ NoDownload
    /\ \/ /\ body_sent \in {Sent(bs) : bs \in FrameBodies}
          /\ trailing \in {<<>>, <<0>>}
          /\ segments \in Splits(send_data(body_sent.body) \o trailing)
       \/ /\ body_sent = Nothing
          /\ trailing = <<>>
          /\ segments = <<>>
    /\ got = Data(<<>>)
    /\ framepc = "sent"

SpecFrame == InitFrame /\ [][ReceiveData]_vars

\* ------------------------------------------------------------ SyncClient.start

\* max_retries of start
max_retries == 3

\* the largest registry file, in bytes
MaxDbBytes == 2

\* the replies the client can read where it expects a control message: a
\* JSON object, or a body json.loads rejects
Decodable == {TRUE, FALSE}

\* the replies sync_time tells apart: status ok, another status, no JSON
TimeReplies == {"ok", "error", "undecodable"}

\* retry_count += 1 in one of the handlers of start or after a failed
\* download, and the while condition decides whether a new turn is made;
\* the raise of the last handler ends in the outer handler, which logs
Retry(class) ==
    /\ retry_count' = retry_count + 1
    /\ failure' = class
    /\ cpc' = IF retry_count + 1 < max_retries THEN "connect" ELSE "closed"
    /\ outcome' = IF retry_count + 1 < max_retries THEN outcome ELSE "gave_up"

\* the break of start after sync_files has returned
Break ==
    /\ cpc' = "closed"
    /\ outcome' = "completed"
    /\ UNCHANGED <<retry_count, failure>>

\* a turn of the loop that leaves the socket of the turn before open
ConnectLeaking ==
    /\ cpc = "connect"
    /\ attempts' = attempts + 1
    /\ UNCHANGED closed_sockets
    /\ \/ /\ connections' = connections + 1
          /\ undecodable' = {}
          /\ session' = <<"connect">>
          /\ cpc' = "sync_time"
          /\ UNCHANGED <<retry_count, outcome, failure>>
       \/ /\ \E class \in {"refused", "timeout", "other"} : Retry(class)
          /\ session' = <<>>
          /\ UNCHANGED <<connections, undecodable>>
    /\ UNCHANGED <<pending, server_db, expected_size, received_size, compared,
                   client_db, start_result>>
    /\ UNCHANGED nonClientVars

\* start, lines 72-82 and 105-137: the socket of the turn before is closed,
\* a new socket is made and connected, or the connection fails
Connect ==
    /\ cpc = "connect"
    /\ attempts' = attempts + 1
    /\ closed_sockets' = closed_sockets \cup (IF attempts > 0 THEN {attempts} ELSE {})
    /\ \/ /\ connections' = connections + 1
          /\ undecodable' = {}
          /\ session' = <<"connect">>
          /\ cpc' = "sync_time"
          /\ UNCHANGED <<retry_count, outcome, failure>>
       \/ /\ \E class \in {"refused", "timeout", "other"} : Retry(class)
          /\ session' = <<>>
          /\ UNCHANGED <<connections, undecodable>>
    /\ UNCHANGED <<pending, server_db, expected_size, received_size, compared,
                   client_db, start_result>>
    /\ UNCHANGED nonClientVars

\* sync_time: the request is sent and the reply is parsed; on a
\* JSONDecodeError or a status other than ok the function returns 0, and
\* start does not look at the value
SyncTime ==
    /\ cpc = "sync_time"
    /\ \E reply \in TimeReplies :
          /\ undecodable' = IF reply = "undecodable" THEN undecodable \cup {"time_sync"}
                            ELSE undecodable
          /\ session' = Append(session, IF reply = "ok" THEN "time_sync_ok"
                                        ELSE "time_sync_failed")
    /\ cpc' = "download_server_db"
    /\ UNCHANGED <<retry_count, connections, outcome, pending, server_db, expected_size,
                   received_size, compared, attempts, closed_sockets, client_db,
                   failure, start_result>>
    /\ UNCHANGED nonClientVars

\* download_server_db and lines 88-94 of start: a reply that is no JSON gives
\* None; otherwise the file is opened for writing, which empties it, and the
\* bytes that arrive before the peer closes or the timeout strikes are
\* written to it; fewer than announced gives None, and None is a retry
DownloadServerDb ==
    /\ cpc = "download_server_db"
    /\ \/ /\ undecodable' = undecodable \cup {"db_download"}
          /\ Retry("download")
          /\ session' = Append(session, "db_download_failed")
          /\ UNCHANGED <<server_db, expected_size, received_size>>
       \/ \E n \in 0..MaxDbBytes, arrived \in 0..MaxDbBytes :
             /\ arrived <= n
             /\ expected_size' = n
             /\ received_size' = arrived
             /\ server_db' = arrived
             /\ IF arrived < n
                THEN /\ Retry("download")
                     /\ session' = Append(session, "db_download_failed")
                ELSE /\ cpc' = "compare_files"
                     /\ session' = Append(session, "db_download_complete")
                     /\ UNCHANGED <<retry_count, outcome, failure>>
             /\ UNCHANGED undecodable
    /\ UNCHANGED <<connections, pending, compared, attempts, closed_sockets, client_db,
                   start_result>>
    /\ UNCHANGED nonClientVars

\* line 97 of start: compare_files reads the downloaded file and returns
\* the list to send
CompareFiles ==
    /\ cpc = "compare_files"
    /\ compared' = compared \cup {[length |-> server_db, announced |-> expected_size]}
    /\ pending' \in 0..MaxFiles
    /\ session' = Append(session, "diff")
    /\ cpc' = "sync_files"
    /\ UNCHANGED <<retry_count, connections, undecodable, outcome, server_db,
                   expected_size, received_size, attempts, closed_sockets, client_db,
                   failure, start_result>>
    /\ UNCHANGED nonClientVars

\* sync_files, lines 395-420: nothing to send, or the request is sent and
\* the reply is read; a reply that is no JSON makes sync_files return
SyncFilesRequest ==
    /\ cpc = "sync_files"
    /\ \/ /\ pending = 0
          /\ Break
          /\ UNCHANGED <<undecodable, session>>
       \/ /\ pending > 0
          /\ session' = Append(session, "file_sync")
          /\ \E ok \in Decodable :
                IF ok
                THEN /\ cpc' = "ready_for_file"
                     /\ UNCHANGED <<retry_count, outcome, undecodable, failure>>
                ELSE /\ undecodable' = undecodable \cup {"file_sync"}
                     /\ Break
    /\ UNCHANGED <<connections, pending, server_db, expected_size, received_size, compared,
                   attempts, closed_sockets, client_db, start_result>>
    /\ UNCHANGED nonClientVars

\* the position after the loop body has ended for one file
NextFile == IF pending = 1 THEN "sync_complete" ELSE "ready_for_file"

\* sync_files, lines 432-455: the reply announcing that the server is ready
\* for the file; a reply that is no JSON skips the file (continue)
RecvReadyForFile ==
    /\ cpc = "ready_for_file"
    /\ \E ok \in Decodable :
          IF ok
          THEN /\ cpc' = "file_status"
               /\ UNCHANGED <<pending, undecodable>>
          ELSE /\ undecodable' = undecodable \cup {"file_sync"}
               /\ pending' = pending - 1
               /\ cpc' = NextFile
    /\ UNCHANGED <<retry_count, connections, outcome, server_db, expected_size,
                   received_size, compared, attempts, closed_sockets, client_db,
                   failure, session, start_result>>
    /\ UNCHANGED nonClientVars

\* sync_files, lines 457-473: the reply to the streamed file; a reply that
\* is no JSON is logged and the loop goes on
RecvFileStatus ==
    /\ cpc = "file_status"
    /\ \E ok \in Decodable :
          undecodable' = IF ok THEN undecodable ELSE undecodable \cup {"file_sync"}
    /\ pending' = pending - 1
    /\ cpc' = NextFile
    /\ UNCHANGED <<retry_count, connections, outcome, server_db, expected_size,
                   received_size, compared, attempts, closed_sockets, client_db,
                   failure, session, start_result>>
    /\ UNCHANGED nonClientVars

\* sync_files, lines 475-491, and the break of start: whatever the last
\* reply is, sync_files returns and start leaves its loop
RecvSyncComplete ==
    /\ cpc = "sync_complete"
    /\ \E ok \in Decodable :
          undecodable' = IF ok THEN undecodable ELSE undecodable \cup {"file_sync"}
    /\ Break
    /\ UNCHANGED <<connections, pending, server_db, expected_size, received_size, compared,
                   attempts, closed_sockets, client_db, session, start_result>>
    /\ UNCHANGED nonClientVars

\* the positions of a session at which a call of start can raise:
\* sync_time, compare_files and sync_files use the socket, the store and the
\* tree outside any handler of their own
Raising == {"sync_time", "compare_files", "sync_files", "ready_for_file", "file_status",
            "sync_complete"}

\* start, lines 121-137: socket.timeout or another exception reaches the
\* handlers of the loop
Raises ==
    /\ cpc \in Raising
    /\ \E class \in {"timeout", "other"} : Retry(class)
    /\ UNCHANGED <<connections, undecodable, pending, server_db, expected_size,
                   received_size, compared, attempts, closed_sockets, client_db,
                   session, start_result>>
    /\ UNCHANGED nonClientVars

\* start, lines 139-148: the loop has been left; the socket and the store
\* handle are closed and start returns, with no value and raising nothing
Finally ==
    /\ cpc = "closed"
    /\ closed_sockets' = closed_sockets \cup (IF attempts > 0 THEN {attempts} ELSE {})
    /\ client_db' = "closed"
    /\ start_result' = "None"
    /\ cpc' = "returned"
    /\ UNCHANGED <<retry_count, connections, undecodable, outcome, pending, server_db,
                   expected_size, received_size, compared, attempts, failure, session>>
    /\ UNCHANGED nonClientVars

\* the client after construction: no connection yet, and server_file_sync.db
\* absent or left by an earlier run
InitClient ==
    /\ NoServer
    /\ NoDiff
    /\ NoExchange
    /\ NoRace
    /\ NoSend
    /\ NoExclude
    /\ NoStore
    /\ NoAccept
    /\ NoConn
    /\ NoFrame
    /\ NoDownload
    /\ cpc = "connect"
    /\ retry_count = 0
    /\ connections = 0
    /\ undecodable = {}
    /\ outcome = "none"
    /\ pending = 0
    /\ server_db \in {NoFile} \cup 0..MaxDbBytes
    /\ expected_size = 0
    /\ received_size = 0
    /\ compared = {}
    /\ attempts = 0
    /\ closed_sockets = {}
    /\ client_db = "open"
    /\ failure = "none"
    /\ session = <<>>
    /\ start_result = "running"

NextClient ==
    \/ Connect
    \/ SyncTime
    \/ DownloadServerDb
    \/ CompareFiles
    \/ SyncFilesRequest
    \/ RecvReadyForFile
    \/ RecvFileStatus
    \/ RecvSyncComplete
    \/ Raises
    \/ Finally

SpecClient == InitClient /\ [][NextClient]_vars

\* the client is one sequential process: while it has a step to take it
\* takes one
SpecClientLive == SpecClient /\ WF_vars(NextClient)

\* ------------------------------------------------------------ the raw bytes of a file_sync

\* the longest local file, and the changes made to local files meanwhile
MaxLength == 2
MaxEdits == 2

\* another process writes to a local file that is still to be sent
FileChanges ==
    /\ edits < MaxEdits
    /\ \E k \in (Len(streamed) + 1)..Len(lengths), n \in 0..MaxLength :
          /\ n # lengths[k]
          /\ lengths' = [lengths EXCEPT ![k] = n]
    /\ edits' = edits + 1
    /\ UNCHANGED <<announced, streamed, consumed, in_flight>>
    /\ UNCHANGED nonSendVars

\* sync_files, lines 448-455: after ready_for_file the client opens the
\* file and sends chunk after chunk until read() returns nothing, that is
\* the file as long as it is now
StreamFile ==
    /\ Len(streamed) < Len(announced)
    /\ Len(consumed) >= Len(streamed)
    /\ streamed' = Append(streamed, lengths[Len(streamed) + 1])
    /\ in_flight' = in_flight + lengths[Len(streamed) + 1]
    /\ UNCHANGED <<lengths, announced, consumed, edits>>
    /\ UNCHANGED nonSendVars

\* handle_file_sync, lines 319-327: the server reads until it has the
\* announced number of bytes, waiting while fewer have come
ReceiveFile ==
    /\ Len(consumed) < Len(announced)
    /\ in_flight >= announced[Len(consumed) + 1]
    /\ consumed' = Append(consumed, announced[Len(consumed) + 1])
    /\ in_flight' = in_flight - announced[Len(consumed) + 1]
    /\ UNCHANGED <<lengths, announced, streamed, edits>>
    /\ UNCHANGED nonSendVars

\* compare_files has returned: each entry of the request carries the size
\* that stat gave for the file (client.py 370, 377-382)
InitSend ==
    /\ NoServer
    /\ NoDiff
    /\ NoExchange
    /\ NoRace
    /\ NoConn
    /\ NoFrame
    /\ NoClient
    /\ NoDownload
    /\ NoAccept
    /\ NoStore
    /\ NoExclude
    /\ \E n \in 1..MaxFiles : lengths \in [1..n -> 0..MaxLength]
    /\ announced = lengths
    /\ streamed = <<>>
    /\ consumed = <<>>
    /\ in_flight = 0
    /\ edits = 0

NextSend ==
    \/ FileChanges
    \/ StreamFile
    \/ ReceiveFile

SpecSend == InitSend /\ [][NextSend]_vars

\* ------------------------------------- two sessions on one destination path
\* handle_client runs each session in a thread of its own (server.py
\* 116-126) and handle_file_sync takes no lock: the steps of lines 295-327
\* of two sessions that were sent the same path interleave freely.  A file
\* is a sequence of chunks of DEFAULT_BUFFER_SIZE bytes; every open gives a
\* file offset of its own, and reads and writes go chunk by chunk.

MaxSecond == 1

\* no file; the destination as it stood before the sessions; the chunks
\* session s is sent; a chunk never written, below a later write
Gone == [exists |-> FALSE, bytes |-> <<>>]
Old == <<"old", "old">>
Sends(s) == <<s, s>>
Hole == "hole"

\* calculate_file_hash of a sequence of chunks
hash_of(bytes) == [md5 |-> bytes]

\* f.write(chunk) at the file offset off of the writer's handle
WriteAt(bytes, off, chunk) ==
    IF off < Len(bytes) THEN [bytes EXCEPT ![off + 1] = chunk]
    ELSE bytes \o [k \in 1..(off - Len(bytes)) |-> Hole] \o <<chunk>>

\* int(time.time()) moves on
Tick ==
    /\ seconds < MaxSecond
    /\ seconds' = seconds + 1
    /\ UNCHANGED <<destination, backup_area, backup_rows, spc, frame>>
    /\ UNCHANGED nonRaceVars

\* line 296: if full_dest_path.exists()
DestExists(s) ==
    /\ spc[s] = "exists"
    /\ spc' = [spc EXCEPT ![s] = IF destination.exists THEN "copy_open" ELSE "open"]
    /\ UNCHANGED <<destination, backup_area, backup_rows, seconds, frame>>
    /\ UNCHANGED nonRaceVars

\* lines 298-301: the backup name is built from the second, and copy2
\* opens the backup file for writing
CopyStart(s) ==
    /\ spc[s] = "copy_open"
    /\ backup_area' = [backup_area EXCEPT ![seconds] = [exists |-> TRUE, bytes |-> <<>>]]
    /\ frame' = [frame EXCEPT ![s] = [@ EXCEPT !.backup_path = seconds, !.offset = 0]]
    /\ spc' = [spc EXCEPT ![s] = "copy"]
    /\ UNCHANGED <<destination, backup_rows, seconds>>
    /\ UNCHANGED nonRaceVars

\* line 301: copy2 reads the destination chunk by chunk up to its end as
\* it is when the read gets there, and writes each chunk to the backup file
CopyChunk(s) ==
    /\ spc[s] = "copy"
    /\ LET off == frame[s].offset
           b == frame[s].backup_path
       IN  IF off < Len(destination.bytes)
           THEN /\ backup_area' = [backup_area EXCEPT ![b].bytes =
                                      WriteAt(@, off, destination.bytes[off + 1])]
                /\ frame' = [frame EXCEPT ![s].offset = off + 1]
                /\ spc' = spc
           ELSE /\ spc' = [spc EXCEPT ![s] = "stat"]
                /\ UNCHANGED <<backup_area, frame>>
    /\ UNCHANGED <<destination, backup_rows, seconds>>
    /\ UNCHANGED nonRaceVars

\* line 304: original_file_stat = full_dest_path.stat()
StatDest(s) ==
    /\ spc[s] = "stat"
    /\ frame' = [frame EXCEPT ![s] = [@ EXCEPT !.size = Len(destination.bytes),
                                               !.offset = 0, !.data = <<>>]]
    /\ spc' = [spc EXCEPT ![s] = "hash"]
    /\ UNCHANGED <<destination, backup_area, backup_rows, seconds>>
    /\ UNCHANGED nonRaceVars

\* line 310: calculate_file_hash(full_dest_path) reads the destination
\* chunk by chunk
HashChunk(s) ==
    /\ spc[s] = "hash"
    /\ LET off == frame[s].offset
       IN  IF off < Len(destination.bytes)
           THEN /\ frame' = [frame EXCEPT ![s] =
                                [@ EXCEPT !.data = Append(@, destination.bytes[off + 1]),
                                          !.offset = off + 1]]
                /\ spc' = spc
           ELSE /\ spc' = [spc EXCEPT ![s] = "record"]
                /\ frame' = frame
    /\ UNCHANGED <<destination, backup_area, backup_rows, seconds>>
    /\ UNCHANGED nonRaceVars

\* lines 305-311: db.backup_file with the stat size and the hash just
\* computed; ready_for_file follows (line 316) and touches no file
InsertBackup(s) ==
    /\ spc[s] = "record"
    /\ backup_rows' = Append(backup_rows,
                             [backup_path |-> frame[s].backup_path,
                              size |-> frame[s].size,
                              hash |-> hash_of(frame[s].data),
                              session |-> s])
    /\ spc' = [spc EXCEPT ![s] = "open"]
    /\ UNCHANGED <<destination, backup_area, seconds, frame>>
    /\ UNCHANGED nonRaceVars

\* line 319: open(full_dest_path, 'wb') creates or truncates
Truncate(s) ==
    /\ spc[s] = "open"
    /\ destination' = [exists |-> TRUE, bytes |-> <<>>]
    /\ frame' = [frame EXCEPT ![s].offset = 0]
    /\ spc' = [spc EXCEPT ![s] = "write"]
    /\ UNCHANGED <<backup_area, backup_rows, seconds>>
    /\ UNCHANGED nonRaceVars

\* lines 320-327: the receive loop writes chunk after chunk, then the file
\* is closed
WriteChunk(s) ==
    /\ spc[s] = "write"
    /\ LET off == frame[s].offset
       IN  IF off < Len(Sends(s))
           THEN /\ destination' = [destination EXCEPT !.bytes =
                                      WriteAt(@, off, Sends(s)[off + 1])]
                /\ frame' = [frame EXCEPT ![s].offset = off + 1]
                /\ spc' = spc
           ELSE /\ spc' = [spc EXCEPT ![s] = "done"]
                /\ UNCHANGED <<destination, frame>>
    /\ UNCHANGED <<backup_area, backup_rows, seconds>>
    /\ UNCHANGED nonRaceVars

\* both sessions have been sent a file for the one path, which is there
\* or not
InitRace ==
    /\ NoServer
    /\ NoDiff
    /\ NoExchange
    /\ NoConn
    /\ NoFrame
    /\ NoClient
    /\ NoDownload
    /\ NoAccept
    /\ NoStore
    /\ NoExclude
    /\ NoSend
    /\ destination \in {Gone, [exists |-> TRUE, bytes |-> Old]}
    /\ backup_area = [t \in 0..MaxSecond |-> Gone]
    /\ backup_rows = <<>>
    /\ seconds = 0
    /\ spc = [s \in Sessions |-> "exists"]
    /\ frame = [s \in Sessions |-> NoLocals]

NextRace ==
    \/ Tick
    \/ \E s \in Sessions :
          \/ DestExists(s)
          \/ CopyStart(s)
          \/ CopyChunk(s)
          \/ StatDest(s)
          \/ HashChunk(s)
          \/ InsertBackup(s)
          \/ Truncate(s)
          \/ WriteChunk(s)

SpecRace == InitRace /\ [][NextRace]_vars

\* --------------------------------- a file_sync exchange between two peers
\* SyncClient.sync_files on one side, SyncServer.handle_file_sync on the
\* other, over a connection that stays open.  Both sides receive with
\* blocking calls and no timeout.  Statuses travel to the client as framed
\* messages, file bytes to the worker as raw bytes.

\* the receive calls of sync_files
Receives == {"wait_ready", "wait_ready_for_file", "wait_status", "wait_complete"}

\* receive_data as the client sees it: the message at the head of the
\* stream, or, when recv(4) returns less than the four bytes of the length
\* prefix, the empty JSON object; after such a read the stream is no
\* longer read at message boundaries
Outcomes == {Head(to_client), "{}"}

\* the client goes on to the file after the k-th, or to sync_complete
AfterFile(k) ==
    IF k < Len(sizes_sent) THEN [at |-> "wait_ready_for_file", k |-> k + 1]
    ELSE [at |-> "wait_complete", k |-> k]

\* one receive_data of the client with what follows it up to the next
\* receive (client.py 406-419, 431-445, 448-469, 472-486)
ClientReceive ==
    /\ client_at.at \in Receives
    /\ to_client # <<>>
    /\ ~desynced
    /\ \E msg \in Outcomes :
          /\ desynced' = (msg = "{}")
          /\ to_client' = IF msg = "{}" THEN to_client ELSE Tail(to_client)
          /\ LET k == client_at.k
             IN  CASE client_at.at = "wait_ready" ->
                        /\ client_at' = IF msg = "ready"
                                        THEN [at |-> "wait_ready_for_file", k |-> 1]
                                        ELSE [at |-> "returned", k |-> k]
                        /\ raw_bytes' = raw_bytes
                   [] client_at.at = "wait_ready_for_file" ->
                        IF msg = "ready_for_file"
                        THEN /\ raw_bytes' = raw_bytes + sizes_now[k]
                             /\ client_at' = [at |-> "wait_status", k |-> k]
                        ELSE /\ raw_bytes' = raw_bytes
                             /\ client_at' = AfterFile(k)
                   [] client_at.at = "wait_status" ->
                        /\ client_at' = AfterFile(k)
                        /\ raw_bytes' = raw_bytes
                   [] client_at.at = "wait_complete" ->
                        /\ client_at' = [at |-> "returned", k |-> k]
                        /\ raw_bytes' = raw_bytes
    /\ UNCHANGED <<sizes_sent, sizes_now, server_at>>
    /\ UNCHANGED nonExchangeVars

\* server.py 276: send {status: ready}
SendReady ==
    /\ server_at.at = "dispatch"
    /\ to_client' = Append(to_client, "ready")
    /\ server_at' = [at |-> "loop", k |-> 1]
    /\ UNCHANGED <<sizes_sent, sizes_now, raw_bytes, desynced, client_at>>
    /\ UNCHANGED nonExchangeVars

\* server.py 282-316: the head of the loop body up to ready_for_file
AnnounceFile ==
    /\ server_at.at = "loop"
    /\ server_at.k <= Len(sizes_sent)
    /\ to_client' = Append(to_client, "ready_for_file")
    /\ server_at' = [server_at EXCEPT !.at = "recv"]
    /\ UNCHANGED <<sizes_sent, sizes_now, raw_bytes, desynced, client_at>>
    /\ UNCHANGED nonExchangeVars

\* server.py 319-347: the receive loop returns once file_size bytes have
\* come; the worker then sends the file's status, file_received or
\* hash_mismatch, which the client takes alike
TakeFile ==
    /\ server_at.at = "recv"
    /\ raw_bytes >= sizes_sent[server_at.k]
    /\ raw_bytes' = raw_bytes - sizes_sent[server_at.k]
    /\ to_client' = Append(to_client, "file_status")
    /\ server_at' = [at |-> "loop", k |-> server_at.k + 1]
    /\ UNCHANGED <<sizes_sent, sizes_now, desynced, client_at>>
    /\ UNCHANGED nonExchangeVars

\* server.py 350-353: after the last file, send sync_complete
SendSyncComplete ==
    /\ server_at.at = "loop"
    /\ server_at.k > Len(sizes_sent)
    /\ to_client' = Append(to_client, "sync_complete")
    /\ server_at' = [server_at EXCEPT !.at = "idle"]
    /\ UNCHANGED <<sizes_sent, sizes_now, raw_bytes, desynced, client_at>>
    /\ UNCHANGED nonExchangeVars

\* the client has sent the request (client.py 399-403) with the sizes that
\* compare_files took; the files are as long as then, or have changed
InitExchange ==
    /\ NoServer
    /\ NoDiff
    /\ NoConn
    /\ NoFrame
    /\ NoClient
    /\ NoDownload
    /\ NoAccept
    /\ NoStore
    /\ NoExclude
    /\ NoSend
    /\ NoRace
    /\ \E n \in 1..MaxFiles :
          /\ sizes_sent \in [1..n -> 0..MaxLength]
          /\ sizes_now \in [1..n -> 0..MaxLength]
    /\ to_client = <<>>
    /\ raw_bytes = 0
    /\ desynced = FALSE
    /\ client_at = [at |-> "wait_ready", k |-> 0]
    /\ server_at = [at |-> "dispatch", k |-> 0]

NextExchange ==
    \/ ClientReceive
    \/ SendReady
    \/ AnnounceFile
    \/ TakeFile
    \/ SendSyncComplete

SpecExchange == InitExchange /\ [][NextExchange]_vars

\* a thread that can run does run
SpecExchangeLive == SpecExchange /\ WF_vars(NextExchange)

\* ------------------------------------------------------------ the exclusion rules

\* the values exclude.conf can give after ext:, dir: and path:
ExtDirectives == {".txt", ".TXT"}
DirDirectives == {"d1"}
PathDirectives == {<<"d1">>, <<"d1", "a.txt">>}

\* the relative paths should_exclude_file is asked about
CandidatePaths ==
    {<<"a.txt">>, <<"A.TXT">>, <<"notes">>, <<"d1", "a.txt">>, <<"d2", "app.LOG">>,
     <<"logs", "app.log">>, <<"logs", "notes">>, <<"d2", "app.log">>}

\* load_exclude_config: the built-in rules and, after them, the values of
\* the directives as they are written; the built-in rules alone when the
\* file cannot be read
load_exclude_config(conf, readable) ==
    IF readable
    THEN [extensions |-> EXCLUDED_EXTENSIONS \cup conf.ext,
          directories |-> EXCLUDED_DIRECTORIES \cup conf.dir,
          paths |-> EXCLUDED_PATHS \cup conf.path]
    ELSE [extensions |-> EXCLUDED_EXTENSIONS, directories |-> EXCLUDED_DIRECTORIES,
          paths |-> EXCLUDED_PATHS]

\* SyncClient.__init__, line 42
LoadExcludeConfig ==
    /\ excluded_extensions = {}
    /\ \E readable \in BOOLEAN :
          LET loaded == load_exclude_config(exclude_conf, readable)
          IN  /\ excluded_extensions' = loaded.extensions
              /\ excluded_directories' = loaded.directories
              /\ excluded_paths' = loaded.paths
    /\ UNCHANGED <<exclude_conf, verdict>>
    /\ UNCHANGED nonExcludeVars

\* should_exclude_file(path), as compare_files calls it for a tracked path
ShouldExcludeFile ==
    /\ excluded_extensions # {}
    /\ \E path \in CandidatePaths :
          verdict' = [asked |-> TRUE, path |-> path,
                      excluded |-> should_exclude(path, excluded_extensions,
                                                  excluded_directories, excluded_paths)]
    /\ UNCHANGED <<exclude_conf, excluded_extensions, excluded_directories, excluded_paths>>
    /\ UNCHANGED nonExcludeVars

\* a client about to be constructed, beside some exclude.conf
InitExclude ==
    /\ NoServer
    /\ NoDiff
    /\ NoExchange
    /\ NoRace
    /\ NoSend
    /\ NoConn
    /\ NoFrame
    /\ NoClient
    /\ NoDownload
    /\ NoAccept
    /\ NoStore
    /\ exclude_conf \in [ext : SUBSET ExtDirectives, dir : SUBSET DirDirectives,
                         path : SUBSET PathDirectives]
    /\ excluded_extensions = {}
    /\ excluded_directories = {}
    /\ excluded_paths = {}
    /\ verdict = [asked |-> FALSE, path |-> <<>>, excluded |-> FALSE]

NextExclude ==
    \/ LoadExcludeConfig
    \/ ShouldExcludeFile

SpecExclude == InitExclude /\ [][NextExclude]_vars

\* ------------------------------------------------------------ the table files, row by row

\* the paths, sizes, mtimes and hashes of the rows looked at
StorePaths == <<"a.txt", "b.txt">>
StoreSizes == 0..1
StoreTimes == 0..1
StoreHashes == {"h1", "h2"}

\* no file at a path of the tree
NoEntry == [there |-> FALSE, size |-> 0, mtime |-> 0]
Entry(size, mtime) == [there |-> TRUE, size |-> size, mtime |-> mtime]

\* the column hash of a row written by a statement that names no hash
NoHash == "NULL"

\* an INSERT that keeps the row already there for the path
insert_plain(tab, path, size, modified_time, hash_value) ==
    Append(tab, [path |-> path, size |-> size, modified_time |-> modified_time,
                 hash |-> hash_value])

\* INSERT OR REPLACE INTO files, under UNIQUE(path): the row kept for the
\* path is deleted and the new row is inserted, with NULL in the columns
\* the statement does not name
insert_or_replace(tab, path, size, modified_time, hash_value) ==
    Append(SelectSeq(tab, LAMBDA r : r.path # path),
           [path |-> path, size |-> size, modified_time |-> modified_time,
            hash |-> hash_value])

\* the loop of scan_directory over the files os.walk finds, from the k-th on
RECURSIVE ScanFrom(_, _, _)
ScanFrom(tab, tree, k) ==
    IF k > Len(StorePaths) THEN tab
    ELSE LET path == StorePaths[k]
         IN  IF tree[path].there
             THEN ScanFrom(insert_or_replace(tab, path, tree[path].size, tree[path].mtime,
                                             NoHash), tree, k + 1)
             ELSE ScanFrom(tab, tree, k + 1)

\* FileDatabase.scan_directory at the start of a server or a client
ScanDirectory ==
    /\ table' = ScanFrom(table, disk, 1)
    /\ last_op' = "scan"
    /\ UNCHANGED disk
    /\ UNCHANGED nonStoreVars

\* handle_file_sync, lines 319-343: a transfer whose hash matched has written
\* the file and writes the row with the announced values
ConfirmedTransfer ==
    /\ \E k \in 1..Len(StorePaths), size \in StoreSizes, modified_time \in StoreTimes,
          hash_value \in StoreHashes :
          /\ disk' = [disk EXCEPT ![StorePaths[k]] = Entry(size, modified_time)]
          /\ table' = insert_or_replace(table, StorePaths[k], size, modified_time, hash_value)
    /\ last_op' = "transfer"
    /\ UNCHANGED nonStoreVars

\* restore_files_by_time_range, lines 80-89: a replayed backup has been
\* copied to its path and its row is written with the backup's values
RestoredFile ==
    /\ \E k \in 1..Len(StorePaths), size \in StoreSizes, modified_time \in StoreTimes,
          hash_value \in StoreHashes :
          /\ disk' = [disk EXCEPT ![StorePaths[k]] = Entry(size, modified_time)]
          /\ table' = insert_or_replace(table, StorePaths[k], size, modified_time, hash_value)
    /\ last_op' = "restore"
    /\ UNCHANGED nonStoreVars

\* the tree changes under the store: a file is written or removed by hand
TreeChanges ==
    /\ \E k \in 1..Len(StorePaths) :
          disk' \in {[disk EXCEPT ![StorePaths[k]] = e] :
                       e \in {NoEntry} \cup {Entry(size, mtime) : size \in StoreSizes,
                                                                  mtime \in StoreTimes}}
    /\ disk' # disk
    /\ last_op' = "tree"
    /\ UNCHANGED table
    /\ UNCHANGED nonStoreVars

\* init_db on a new file: the table is empty, whatever the tree holds
InitStore ==
    /\ NoServer
    /\ NoDiff
    /\ NoExchange
    /\ NoRace
    /\ NoSend
    /\ NoExclude
    /\ NoConn
    /\ NoFrame
    /\ NoClient
    /\ NoDownload
    /\ NoAccept
    /\ table = <<>>
    /\ disk \in [{StorePaths[k] : k \in 1..Len(StorePaths)} ->
                   {NoEntry} \cup {Entry(size, mtime) : size \in StoreSizes, mtime \in StoreTimes}]
    /\ last_op = "none"

NextStore ==
    \/ ScanDirectory
    \/ ConfirmedTransfer
    \/ RestoredFile
    \/ TreeChanges

SpecStore == InitStore /\ [][NextStore]_vars

\* ------------------------------------------------------------ SyncServer.start, handle_clients

\* the connections clients make while the server runs
MaxConnections == 5

\* a client's connect() completes in the listening socket's backlog
Arrive ==
    /\ accepted + backlog < MaxConnections
    /\ backlog' = backlog + 1
    /\ UNCHANGED <<accepted, clients, workers, served_by>>
    /\ UNCHANGED nonAcceptVars

\* an accept loop that forgets the connection it has accepted
AcceptDropping ==
    /\ backlog > 0
    /\ backlog' = backlog - 1
    /\ accepted' = accepted + 1
    /\ served_by' = Append(served_by, {})
    /\ UNCHANGED <<clients, workers>>
    /\ UNCHANGED nonAcceptVars

\* start, lines 91-94: one turn of the accept loop: accept() returns the
\* next connection and it is put on self.clients, a queue.Queue() made
\* without maxsize, so that put never waits
Accept ==
    /\ backlog > 0
    /\ backlog' = backlog - 1
    /\ accepted' = accepted + 1
    /\ clients' = Append(clients, accepted + 1)
    /\ served_by' = Append(served_by, {})
    /\ UNCHANGED workers
    /\ UNCHANGED nonAcceptVars

\* handle_clients, lines 107-112: one turn of the dispatcher with a
\* connection in the queue (on queue.Empty the turn changes nothing): the
\* connection is taken off and a thread running handle_client is started
handle_clients ==
    /\ clients # <<>>
    /\ clients' = Tail(clients)
    /\ workers' = Append(workers, [connection |-> Head(clients), running |-> TRUE])
    /\ UNCHANGED <<backlog, accepted, served_by>>
    /\ UNCHANGED nonAcceptVars

\* handle_client in the thread started for it: the session of the thread's
\* connection, from its first request to the closing of the socket
handle_client(t) ==
    /\ workers[t].running
    /\ workers' = [workers EXCEPT ![t].running = FALSE]
    /\ served_by' = [served_by EXCEPT ![workers[t].connection] = @ \cup {t}]
    /\ UNCHANGED <<backlog, accepted, clients>>
    /\ UNCHANGED nonAcceptVars

\* the server is listening and its dispatcher thread runs
InitAccept ==
    /\ NoServer
    /\ NoDiff
    /\ NoExchange
    /\ NoRace
    /\ NoSend
    /\ NoExclude
    /\ NoStore
    /\ NoConn
    /\ NoFrame
    /\ NoClient
    /\ NoDownload
    /\ NoAccept

NextAccept ==
    \/ Arrive
    \/ Accept
    \/ handle_clients
    \/ \E t \in 1..Len(workers) : handle_client(t)

SpecAccept == InitAccept /\ [][NextAccept]_vars

\* the dispatcher is a thread of its own that loops for ever, and so does
\* every thread it starts until its session ends
SpecAcceptLive ==
    /\ SpecAccept
    /\ WF_vars(handle_clients)
    /\ \A t \in 1..MaxConnections : WF_vars(t \in 1..Len(workers) /\ handle_client(t))

\* ------------------------------------------------------------ SyncServer.handle_db_download

\* the largest registry file at the start, and the commits of other workers,
\* the file being counted in chunks of DEFAULT_BUFFER_SIZE bytes
MaxDbChunks == 3
MaxCommits == 2

\* lines 203-214: the length of file_sync.db is read and announced
AnnounceSize ==
    /\ dlpc = "request"
    /\ file_size' = db_size
    /\ wire' = Append(wire, "ok")
    /\ dlpc' = "announced"
    /\ UNCHANGED <<db_size, sent_size, commits>>
    /\ UNCHANGED nonDownloadVars

\* lines 216-238: the client's answer is read; anything but status ready
\* ends the handler, ready opens the file
ClientAnswers ==
    /\ dlpc = "announced"
    /\ \E answer \in {"ready", "other"} :
          dlpc' = IF answer = "ready" THEN "streaming" ELSE "returned"
    /\ sent_size' = 0
    /\ UNCHANGED <<db_size, file_size, wire, commits>>
    /\ UNCHANGED nonDownloadVars

\* lines 239-248: one turn of the loop: f.read gives the next chunk of the
\* file as it is now and sendall sends it, or gives nothing at the end of
\* the file and the loop is left
SendChunk ==
    /\ dlpc = "streaming"
    /\ IF sent_size < db_size
       THEN /\ wire' = Append(wire, "chunk")
            /\ sent_size' = sent_size + 1
            /\ UNCHANGED dlpc
       ELSE /\ dlpc' = "done"
            /\ UNCHANGED <<wire, sent_size>>
    /\ UNCHANGED <<db_size, file_size, commits>>
    /\ UNCHANGED nonDownloadVars

\* lines 249-258: f.read or sendall raises; the handler sends a status
\* error message, unless that send raises too
StreamRaises ==
    /\ dlpc = "streaming"
    /\ \E delivered \in BOOLEAN :
          wire' = IF delivered THEN Append(wire, "error") ELSE wire
    /\ dlpc' = "returned"
    /\ UNCHANGED <<db_size, file_size, sent_size, commits>>
    /\ UNCHANGED nonDownloadVars

\* handle_file_sync, lines 338-343, in another session worker: a row is
\* written and committed to the same file, which grows by a page or keeps
\* its length
Commit ==
    /\ dlpc \in {"request", "announced", "streaming"}
    /\ commits < MaxCommits
    /\ commits' = commits + 1
    /\ \E grown \in 0..1 : db_size' = db_size + grown
    /\ UNCHANGED <<file_size, sent_size, wire, dlpc>>
    /\ UNCHANGED nonDownloadVars

\* a db_download request has been dispatched
InitDownload ==
    /\ NoServer
    /\ NoDiff
    /\ NoExchange
    /\ NoRace
    /\ NoSend
    /\ NoExclude
    /\ NoStore
    /\ NoAccept
    /\ NoConn
    /\ NoFrame
    /\ NoClient
    /\ db_size \in 1..MaxDbChunks
    /\ file_size = 0
    /\ sent_size = 0
    /\ wire = <<>>
    /\ commits = 0
    /\ dlpc = "request"

NextDownload ==
    \/ AnnounceSize
    \/ ClientAnswers
    \/ SendChunk
    \/ StreamRaises
    \/ Commit

SpecDownload == InitDownload /\ [][NextDownload]_vars

\* ------------------------------------------------------------ the claims

Rows == 1..Len(backup_files)

\* the rows of the backup log whose backup_time lies in the closed window
\* of the restore that has run
WindowRows ==
    {i \in Rows : /\ backup_files[i].backup_time >= restore.start
                  /\ backup_files[i].backup_time <= restore.end}

InTransferSet(p) == \E k \in 1..Len(files_to_sync) : files_to_sync[k].path = p

\* C1: once ready_for_file has been sent for a file whose destination
\* existed, and while the destination is opened and written, the copy of the
\* old destination is in the backup area and its BackupRecord is in the log.
C1_BackupCompleteBeforeWrite ==
    \A w \in Workers :
        (pc[w] \in {"open", "recv", "verify"} /\ cur[w].existed) =>
            /\ cur[w].backup_path \in BackupNames
            /\ blobs[cur[w].backup_path] # Absent
            /\ cur[w].inserted
            /\ \E i \in Rows : /\ backup_files[i].original_path = cur[w].path
                               /\ backup_files[i].backup_path = cur[w].backup_path

\* C2: the server opens an existing destination for writing only if the
\* BackupRecord of that overwrite was inserted: when the insert failed, the
\* destination is not overwritten.
C2_OverwriteOnlyAfterInsert ==
    [][\A w \in Workers :
          (pc[w] = "open" /\ pc'[w] = "recv" /\ cur[w].existed) => cur[w].inserted]_vars

\* C3: between files, the number of BackupRecords of a path equals the
\* number of files received for it while its destination existed.
C3_OneRecordPerOverwrite ==
    (\A w \in Workers : pc[w] \in {"idle", "next"}) =>
        \A p \in Paths :
            Cardinality({i \in Rows : backup_files[i].original_path = p}) = overwrites[p]

\* C4: any two BackupRecords have distinct backup_path values.
C4_DistinctBackupPaths ==
    \A i \in Rows : \A j \in Rows :
        i # j => backup_files[i].backup_path # backup_files[j].backup_path

\* C5: after a restore whose window holds exactly one BackupRecord, the
\* destination of that record holds the content and the modification time
\* the path had before the overwrite the record was made for.
C5_RoundTrip ==
    restore.ran =>
        (Cardinality(WindowRows) = 1 =>
            LET r == backup_files[CHOOSE i \in WindowRows : TRUE]
                p == r.original_path
            IN  /\ fs[p] # Absent
                /\ calculate_file_hash(fs[p].content) = r.hash
                /\ fs[p].mtime = r.modified_time)

\* C6: a restore selects, for every path with a BackupRecord in the closed
\* window, exactly one record, the one of maximum backup_time among the
\* path's records in the window; nothing outside the window is replayed.
C6_LatestInWindow ==
    restore.ran =>
        LET sel == restore.selected
        IN  /\ \A k \in 1..Len(sel) :
                  \E i \in WindowRows :
                      /\ backup_files[i] = sel[k]
                      /\ \A j \in WindowRows :
                            backup_files[j].original_path = sel[k].original_path
                               => backup_files[j].backup_time <= sel[k].backup_time
            /\ \A i \in WindowRows :
                  \E k \in 1..Len(sel) :
                      sel[k].original_path = backup_files[i].original_path
            /\ \A k \in 1..Len(sel) : \A m \in 1..Len(sel) :
                  k # m => sel[k].original_path # sel[m].original_path
            /\ \A r \in restore.replayed : \E k \in 1..Len(sel) : sel[k] = r

\* the case of the example: three backups of one path, the window holding
\* the two older ones, the middle one replayed
C6_Witness ==
    /\ restore.ran
    /\ \E i \in Rows : \E j \in Rows : \E k \in Rows :
          /\ backup_files[i].original_path = backup_files[j].original_path
          /\ backup_files[j].original_path = backup_files[k].original_path
          /\ restore.start <= backup_files[i].backup_time
          /\ backup_files[i].backup_time < backup_files[j].backup_time
          /\ backup_files[j].backup_time <= restore.end
          /\ restore.end < backup_files[k].backup_time
          /\ backup_files[j] \in restore.replayed

\* C7: a restore is never aborted by one item: every selected record is
\* either restored or skipped, and the count is the number restored.
C7_BatchNeverAborted ==
    restore.ran =>
        /\ ~restore.aborted
        /\ \A k \in 1..Len(restore.selected) :
              \/ restore.selected[k] \in restore.replayed
              \/ restore.selected[k].original_path \in restore.skipped
        /\ restore.count = Cardinality(restore.replayed)

\* C8: no step of the engine (scan, file_sync, restore) removes or changes
\* a row of the backup log.
C8_AppendOnly ==
    [][/\ Len(backup_files') >= Len(backup_files)
       /\ \A i \in Rows : backup_files'[i] = backup_files[i]]_vars

\* a restore has replayed a backup out of a log of two rows
C8_Witness ==
    /\ restore.ran
    /\ restore.count > 0
    /\ Len(backup_files) >= 2

\* C9: a tracked path whose local content hash equals the hash of the
\* server's row is never in the transfer set.
C9_SameHashNeverSent ==
    diffpc = "done" =>
        \A p \in DiffPaths :
            (/\ client_files[p] # NULL
             /\ local[p] # Absent
             /\ server_files[p] # NULL
             /\ server_files[p].hash = calculate_file_hash(local[p].content))
                => ~InTransferSet(p)

\* equal hashes under a skew of both size and time beyond the thresholds:
\* the path was hashed and dropped
C9_Witness ==
    /\ diffpc = "done"
    /\ \E p \in DiffPaths :
          /\ client_files[p] # NULL /\ local[p] # Absent /\ server_files[p] # NULL
          /\ server_files[p].hash = calculate_file_hash(local[p].content)
          /\ Abs(client_files[p].size - server_files[p].size) > DEFAULT_SIZE_THRESHOLD
          /\ Abs(client_files[p].modified_time - server_files[p].modified_time)
                > DEFAULT_TIME_THRESHOLD * TicksPerSecond
          /\ p \in hashed
          /\ ~InTransferSet(p)

\* C10: a tracked path with a server row within both thresholds is neither
\* hashed nor put in the transfer set; only transfer candidates are hashed.
C10_WithinThresholdsNoHash ==
    diffpc = "done" =>
        /\ \A p \in DiffPaths :
              (/\ client_files[p] # NULL
               /\ server_files[p] # NULL
               /\ Abs(client_files[p].size - server_files[p].size)
                     <= DEFAULT_SIZE_THRESHOLD
               /\ Abs(client_files[p].modified_time - server_files[p].modified_time)
                     <= DEFAULT_TIME_THRESHOLD * TicksPerSecond)
                  => (p \notin hashed /\ ~InTransferSet(p))
        /\ \A p \in hashed :
              /\ client_files[p] # NULL
              /\ \/ server_files[p] = NULL
                 \/ Abs(client_files[p].size - server_files[p].size)
                       > DEFAULT_SIZE_THRESHOLD
                 \/ Abs(client_files[p].modified_time - server_files[p].modified_time)
                       > DEFAULT_TIME_THRESHOLD * TicksPerSecond

\* a path exactly on both thresholds whose content differs from the
\* server's: it is not hashed and not sent
C10_Witness ==
    /\ diffpc = "done"
    /\ \E p \in DiffPaths :
          /\ client_files[p] # NULL /\ local[p] # Absent /\ server_files[p] # NULL
          /\ Abs(client_files[p].size - server_files[p].size) = DEFAULT_SIZE_THRESHOLD
          /\ Abs(client_files[p].modified_time - server_files[p].modified_time)
                = DEFAULT_TIME_THRESHOLD * TicksPerSecond
          /\ server_files[p].hash # calculate_file_hash(local[p].content)
          /\ p \notin hashed
          /\ ~InTransferSet(p)

\* C11: after a session in which the server confirmed every file sent, the
\* next download and compare_files over the unchanged tree give an empty
\* transfer set.
C11_DiffIdempotent ==
    diffpc = "again" => files_to_sync = <<>>

\* the first session transferred a file and the second comparison has run
C11_Witness ==
    /\ diffpc = "again"
    /\ confirmed # <<>>

\* the files of the request a worker has finished with
Handled(w) == Len(request[w]) - Len(todo[w])

\* C12: the statuses a worker sends in a file_sync exchange are ready, then
\* per file in list order ready_for_file and one of file_received or
\* hash_mismatch, then sync_complete once after the last file.
C12_MessageOrder ==
    \A w \in Workers :
        LET s == sent[w]
            mid == pc[w] \in {"open", "recv", "verify"}
            over == pc[w] = "idle" /\ s # <<>>
        IN  /\ pc[w] # "idle" => s # <<>>
            /\ s # <<>> =>
                  /\ s[1] = "ready"
                  /\ Len(s) = 1 + 2 * Handled(w) + (IF mid THEN 1 ELSE 0)
                                 + (IF over THEN 1 ELSE 0)
                  /\ \A k \in 2..(1 + 2 * Handled(w)) :
                        IF k % 2 = 0 THEN s[k] = "ready_for_file"
                        ELSE s[k] \in {"file_received", "hash_mismatch"}
                  /\ mid => /\ s[Len(s)] = "ready_for_file"
                            /\ cur[w].path = request[w][Handled(w) + 1].path
                  /\ over => /\ s[Len(s)] = "sync_complete"
                             /\ Handled(w) = Len(request[w])

\* an exchange of two files is over, the first refused and the second taken
C12_Witness ==
    \E w \in Workers :
        /\ pc[w] = "idle"
        /\ sent[w] = <<"ready", "ready_for_file", "hash_mismatch",
                       "ready_for_file", "file_received", "sync_complete">>

\* C13: on a hash mismatch the server replies hash_mismatch, keeps the bytes
\* written, leaves the registry and the counter as they are, and goes on to
\* the next file of the list.
C13_HashMismatch ==
    [][\A w \in Workers :
          (pc[w] = "verify"
             /\ calculate_file_hash(fs[cur[w].path].content) # Info(w).hash) =>
                /\ sent'[w] = Append(sent[w], "hash_mismatch")
                /\ fs' = fs
                /\ files' = files
                /\ received_files' = received_files
                /\ todo'[w] = Tail(todo[w])
                /\ pc'[w] = "next"]_vars

\* a file was refused, its bytes are on the destination, and the handler
\* has announced the next file
C13_Witness ==
    \E w \in Workers :
        /\ Len(sent[w]) >= 4
        /\ sent[w][3] = "hash_mismatch"
        /\ sent[w][4] = "ready_for_file"
        /\ received_files[w] = 0
        /\ LET i == request[w][1]
           IN  /\ fs[i.path] # Absent
               /\ calculate_file_hash(fs[i.path].content) # i.hash
               /\ files[i.path] = NULL \/ files[i.path].hash # i.hash

\* the message the dispatch loop is about to receive
Incoming == Received(taken + 1)

\* C14: a message body that is no decodable JSON is answered with a
\* status:error message and the worker stays in its loop.
C14_BadJsonKeepsSession ==
    [][(loop = "serving" /\ taken < Len(inbox) /\ Incoming.kind \in {"text", "bytes"}) =>
          /\ Len(replies') = Len(replies) + 1
          /\ SubSeq(replies', 1, Len(replies)) = replies
          /\ replies'[Len(replies')].to = taken + 1
          /\ replies'[Len(replies')].status = "error"
          /\ loop' = "serving"]_vars

\* C16: a request of a type other than time_sync, db_download, file_sync
\* and close is answered with {status: error, message: Unknown request type}
\* and the worker stays in its loop; the first answer to a request of a known
\* type is the one of its type, whatever was served before.
C16_ReplyByType ==
    [][(loop = "serving" /\ taken < Len(inbox)
          /\ Incoming.kind = "object" /\ Incoming.sound) =>
          LET k == taken + 1
              t == Incoming.type
              new == SubSeq(replies', Len(replies) + 1, Len(replies'))
          IN  /\ Len(replies') >= Len(replies)
              /\ SubSeq(replies', 1, Len(replies)) = replies
              /\ t \notin {"time_sync", "db_download", "file_sync", "close"} =>
                    /\ new = <<Reply(k, "error", "Unknown request type")>>
                    /\ loop' = "serving"
              /\ t = "time_sync" => new = <<Reply(k, "ok", "server_time")>>
              /\ t = "db_download" => new # <<>> /\ new[1] = Reply(k, "ok", "size")
              /\ t = "file_sync" => new # <<>> /\ new[1] = Reply(k, "ready", "")
              /\ t = "close" => new = <<>>]_vars

\* an unknown request was answered, and a file_sync after it, with no
\* time_sync before
C16_Witness ==
    \E i \in 1..Len(replies) : \E j \in 1..Len(replies) :
        /\ i < j
        /\ replies[i].message = "Unknown request type"
        /\ replies[j].status = "ready"
        /\ \A n \in 1..Len(replies) : replies[n].message # "server_time"

\* C17: a worker in its loop holds its own open store handle; once it has
\* left the loop, by a close request, by the end-of-session sentinel or by
\* an exception, the handle and the socket are closed; the message that
\* made it leave is the last one it received.
C17_ScopedHandle ==
    /\ loop = "serving" => thread_db = "open" /\ client_socket = "open"
    /\ loop = "closed" => thread_db = "closed" /\ client_socket = "closed"
    /\ \A i \in 1..Len(served) :
          LET b == Received(served[i])
          IN  (b.kind = "empty" \/ (b.kind = "object" /\ b.type = "close")
                  \/ b.kind \in {"bytes", "value"} \/ ~b.sound) =>
                 /\ i = Len(served)
                 /\ loop = "closed"
    /\ \A i \in 1..Len(replies) : \E j \in 1..Len(served) : replies[i].to = served[j]

\* a handler raised, the error was sent, everything is closed, and the
\* requests after it were left unread
C17_Witness ==
    /\ loop = "closed"
    /\ thread_db = "closed"
    /\ client_socket = "closed"
    /\ taken < Len(inbox)
    /\ replies # <<>>
    /\ replies[Len(replies)].message = "exception"

\* C18: whatever the segments the stream arrives in, receive_data returns
\* the body that send_data was given and leaves unread exactly the bytes
\* sent after the message; it returns the end-of-session sentinel only when
\* the peer closed without sending a byte.
C18_FramingRoundTrip ==
    framepc = "received" =>
        /\ Join(segments) = trailing
        /\ got = IF body_sent.any THEN Data(body_sent.body) ELSE Sentinel

\* a step of the client in which a reply turned out to be no JSON
BadReply == undecodable' # undecodable /\ undecodable' # {}

\* C15: in whatever phase of a session the client reads a reply that is no
\* JSON (time_sync, db_download, file_sync), it abandons the session there
\* and counts a retry, which makes a fresh connection while the budget
\* lasts; it does not go on with the session and does not leave its loop
\* as after a completed session.
C15_UndecodableAbandons ==
    [][BadReply =>
          /\ retry_count' = retry_count + 1
          /\ cpc' \in {"connect", "closed"}
          /\ outcome' # "completed"]_vars

\* a step of download_server_db in which fewer bytes than announced arrived
ShortDownload ==
    /\ cpc = "download_server_db"
    /\ "db_download" \notin undecodable'
    /\ received_size' < expected_size'

\* C20: a registry download that ends short of the announced size is
\* reported as failed and counted as a retry, no partial registry file is
\* left on the client, compare_files is never run on a file shorter than
\* announced, and every attempt writes the file from byte zero.
C20_ShortDownloadDiscarded ==
    [][/\ ShortDownload => (/\ retry_count' = retry_count + 1
                            /\ cpc' \in {"connect", "closed"}
                            /\ server_db' = NoFile)
       /\ \A c \in compared' : c.length = c.announced
       /\ (cpc = "download_server_db" /\ "db_download" \notin undecodable')
             => server_db' = received_size']_vars

\* C19: after the size N has been announced and the client has said ready,
\* the worker streams exactly N bytes of the registry, also when another
\* worker commits to the file in the meantime, and what it sends after the
\* announcement is raw bytes only until the N bytes are out (no read or
\* send having raised).
C19_StreamsExactlyN ==
    /\ dlpc = "done" => sent_size = file_size
    /\ dlpc \in {"streaming", "done"} =>
          /\ sent_size <= file_size
          /\ \A i \in 2..Len(wire) : i <= file_size + 1 => wire[i] = "chunk"

\* at most max_retries turns, every socket but the last one closed, and
\* every connection starting its session with time_sync
BoundedFreshSessions ==
    /\ attempts <= max_retries
    /\ \A k \in 1..(attempts - 1) : k \in closed_sockets
    /\ cpc = "sync_time" => session = <<"connect">>
    /\ Len(session) >= 2 => session[2] \in {"time_sync_ok", "time_sync_failed"}

C22_TerminalFailure ==
    (cpc = "returned" /\ outcome = "gave_up") =>
        /\ attempts \in closed_sockets
        /\ client_db = "closed"
        /\ start_result # "None"

\* the place of the first occurrence of an event in the session, 0 if none
First(e) ==
    IF \E i \in 1..Len(session) : session[i] = e
    THEN CHOOSE i \in 1..Len(session) :
            session[i] = e /\ \A j \in 1..(i - 1) : session[j] # e
    ELSE 0

\* C28: on one connection the client asks for the registry only after a
\* time_sync reply with status ok, and runs the diff and sends file_sync
\* only after the registry was downloaded completely on that connection.
C28_PhaseOrder ==
    \A i \in 1..Len(session) :
        /\ session[i] \in {"db_download_complete", "db_download_failed"}
              => First("time_sync_ok") \in 1..(i - 1)
        /\ session[i] \in {"diff", "file_sync"}
              => First("db_download_complete") \in 1..(i - 1)

\* the threads started for a connection
ThreadsOf(c) == {t \in 1..Len(workers) : workers[t].connection = c}

\* an accepted connection is in the queue and has no thread, or is out of
\* the queue and has one thread; sessions are run by those threads only
OneWorkerEach ==
    \A c \in 1..accepted :
        /\ Cardinality({i \in 1..Len(clients) : clients[i] = c}) + Cardinality(ThreadsOf(c)) = 1
        /\ served_by[c] \subseteq ThreadsOf(c)

C24_QueueBounded == Len(clients) < MaxConnections

\* the rows of the table for a path
RowsOf(tab, path) == {i \in 1..Len(tab) : tab[i].path = path}

\* C25: a scan leaves the hash of every row that has one as it was, the
\* hash having been written by a confirmed transfer or a restore.
C25_ScanKeepsHash ==
    [][last_op' = "scan" =>
          \A i \in 1..Len(table) :
              table[i].hash # NoHash =>
                  \E j \in 1..Len(table') :
                      table'[j].path = table[i].path /\ table'[j].hash = table[i].hash]_vars

\* C26: whatever scans, confirmed transfers and restores have run on a
\* store, no path has two rows, and a path that has a row keeps having one.
C26_UniqueAndKept ==
    /\ [](\A k \in 1..Len(StorePaths) : Cardinality(RowsOf(table, StorePaths[k])) <= 1)
    /\ [][\A k \in 1..Len(StorePaths) :
             RowsOf(table, StorePaths[k]) # {} => RowsOf(table', StorePaths[k]) # {}]_vars

C26_Witness ==
    /\ last_op = "scan"
    /\ Len(table) = Len(StorePaths)
    /\ \E i \in 1..Len(table) : table[i].hash # NoHash /\ ~disk[table[i].path].there

\* C27: should_exclude_file answers true exactly when the path is, or lies
\* under, an excluded path, or its lower-cased suffix is one of the loaded
\* extensions in whatever letter case the rule was written, or one of its
\* segments is an excluded directory name.
C27_ExcludedExactly ==
    verdict.asked =>
        (verdict.excluded <=>
            \/ \E ex \in excluded_paths : UnderPath(verdict.path, ex)
            \/ \E e \in excluded_extensions :
                  Lower(PathSuffix(verdict.path[Len(verdict.path)])) = Lower(e)
            \/ \E k \in 1..Len(verdict.path) : verdict.path[k] \in excluded_directories)

\* a step in which worker w sends file_received
Confirms(w) ==
    /\ Len(sent'[w]) = Len(sent[w]) + 1
    /\ sent'[w][Len(sent'[w])] = "file_received"

C30_StreamsAnnouncedSize ==
    /\ \A i \in 1..Len(streamed) : streamed[i] = announced[i]
    /\ Len(consumed) = Len(announced) => in_flight = 0
\* the place of a path in the ascending order of the tracked paths
PathIndex(p) == CHOOSE k \in 1..Len(DiffOrder) : DiffOrder[k] = p

\* C31: every tracked path that no rule excludes and that has no row in the
\* downloaded registry is in the transfer set, its entry carrying the path,
\* the size and modification time of the file and the hash of its content;
\* the transfer set is in ascending path order.
C31_UnknownPathsSent ==
    diffpc = "done" =>
        /\ \A p \in DiffPaths :
              (/\ client_files[p] # NULL
               /\ ~should_exclude_file(p)
               /\ server_files[p] = NULL)
                  => (/\ local[p] # Absent
                      /\ \E k \in 1..Len(files_to_sync) :
                            files_to_sync[k] =
                                FileInfo(p, local[p].content, local[p].mtime))
        /\ \A i \in 1..Len(files_to_sync), j \in 1..Len(files_to_sync) :
              i < j => PathIndex(files_to_sync[i].path) < PathIndex(files_to_sync[j].path)

\* how many times a status occurs among the replies of an exchange
Count(statuses, st) ==
    Cardinality({k \in 1..Len(statuses) : statuses[k] = st})

\* C32: the count K that sync_complete carries is the number of
\* file_received replies of the exchange and the number of registry upserts
\* the worker made in it; K lies between 0 and the number of files of the
\* request, and K plus the number of hash_mismatch replies is the number of
\* files processed.
C32_CountMatchesReplies ==
    /\ [](\A w \in Workers :
            /\ received_files[w] = Count(sent[w], "file_received")
            /\ received_files[w] >= 0
            /\ received_files[w] <= Len(request[w])
            /\ pc[w] \in {"next", "idle"} =>
                  received_files[w] + Count(sent[w], "hash_mismatch") = Handled(w))
    /\ [][\A w \in Workers :
            /\ received_files'[w] = received_files[w] + 1 =>
                  /\ pc[w] = "verify"
                  /\ files' = upsert(files, cur[w].path, Info(w).size,
                                     Info(w).modified_time, Info(w).hash)
            /\ (pc[w] = "verify" /\ files' # files) =>
                  received_files'[w] = received_files[w] + 1]_vars

\* sync_complete was sent with K = 1 after two files, one of them refused
C32_Witness ==
    \E w \in Workers :
        /\ pc[w] = "idle"
        /\ Len(request[w]) = 2
        /\ sent[w] # <<>>
        /\ sent[w][Len(sent[w])] = "sync_complete"
        /\ received_files[w] = 1
        /\ Count(sent[w], "hash_mismatch") = 1
        /\ files[request[w][2].path] # NULL

\* the contents a destination holds when no write is under way
CompleteContents == {Old} \cup {Sends(s) : s \in Sessions}

\* C33: with two sessions receiving a file for the same destination path,
\* the backup file of every BackupRecord holds a complete content of the
\* destination, never a truncated or half-written one, and the record's
\* size and hash are those of that backup file.
C33_BackupsComplete ==
    \A k \in 1..Len(backup_rows) :
        LET row == backup_rows[k]
            blob == backup_area[row.backup_path]
        IN  /\ blob.exists
            /\ blob.bytes \in CompleteContents
            /\ row.size = Len(blob.bytes)
            /\ row.hash = hash_of(blob.bytes)

\* the client is in a receive that no message will end
ClientWaits ==
    /\ client_at.at \in Receives
    /\ to_client = <<>> \/ desynced

\* the worker is in a receive that no byte or request will end
ServerWaits ==
    \/ server_at.at = "recv" /\ raw_bytes < sizes_sent[server_at.k]
    \/ server_at.at = "idle"

\* C34: while both peers stay connected, the client and the worker of a
\* file_sync exchange are never both waiting for the other, and the worker
\* comes to send sync_complete (or the client has left the exchange).
C34_ExchangeTerminates ==
    /\ [](~(ClientWaits /\ ServerWaits))
    /\ <>(server_at.at = "idle" \/ client_at.at = "returned")

====
